---- MODULE Spec2Model ----
(***************************************************************************)
(* State-machine model of the SmartCart server: the repository functions   *)
(* of server/db.ts, the tRPC handlers of server/routers.ts and the         *)
(* recommender of server/recommendations.ts.                               *)
(*                                                                         *)
(* Decimals are kept exact: a numeric(4,3) weight is an integer number of  *)
(* thousandths.  Every handler that awaits more than one repository call   *)
(* is a process with one action per awaited call, so that other requests   *)
(* can run between two of its calls.                                       *)
(***************************************************************************)
EXTENDS Integers, Sequences, FiniteSets, TLC

VARIABLES
    db,               \* what getDb() returns: "handle", or "null" (no DATABASE_URL)
    rankingWeights,   \* table ranking_weights: sequence of rows, id = position
    garwPc,           \* per caller: position inside getActiveRankingWeights
    garwRet,          \* per caller: the row last returned by getActiveRankingWeights
    garwReturned,     \* some getActiveRankingWeights call has returned from the table
    garwInserts,      \* per caller: default rows its running call has inserted
    nUpdates,         \* admin weights.update calls made so far
    now,              \* the server clock (Date.now()), in days
    productEmbeddings,\* table product_embeddings: sequence of rows, in insertion order
    embedCalls,       \* history: the arguments of the createEmbedding calls made
    products,         \* table products: sequence of rows, in insertion order
    nextProductId,    \* the serial of products.id
    catalogUploadJobs,\* table catalog_upload_jobs: sequence of rows, id = position
    upPc,             \* position inside the admin.catalog.upload handler
    upInput,          \* its input: [products, generateEmbeddings]
    upJobId,          \* the job it created
    upIds,            \* newProductIds, the list handed to batchGenerateEmbeddings
    upIdx,            \* batchGenerateEmbeddings: the loop index i
    upCount,          \* batchGenerateEmbeddings: [success, failed]
    upError,          \* the error the try block threw: "none" or its message
    nUploads,         \* admin.catalog.upload calls made so far
    sessions,         \* table sessions: sequence of rows
    interactions,     \* table interactions: sequence of rows, in insertion order
    riPc,             \* per request: position inside session.recordInteraction
    riInput,          \* per request: [sessionId, productId, interactionType]
    riResult,         \* per request: how its last call ended
    nRequests,        \* session.recordInteraction requests made so far
    recs,             \* the last recommendations.forSession call and its response
    similar,          \* the last recommendations.similar call and its response
    viewed,           \* the last session.recentlyViewed call and its response
    matched,          \* the last extractMatchedTerms call and its result
    metrics,          \* the last calculateAllMetrics call and its result
    judged,           \* the generateAutoRelevanceJudgments calls on one input and their results
    conn,             \* getDb: _db, _legacyProductColumnsBackfilled and the callers inside it
    batch,            \* batchGenerateEmbeddings: its arguments, locals and calls made
    searchLogs,       \* table search_logs: sequence of rows
    searchResultExplanations, \* table search_result_explanations
    srPc,             \* position inside search.semantic
    srInput,          \* its input
    srResults,        \* the result list in hand (transformedResults / results)
    srLogId,          \* searchLogId of the path being executed
    srLogged,         \* search_logs rows inserted by the request so far
    searchResponse,   \* how the last search.semantic request ended
    nSearches         \* search.semantic requests made so far

weightsVars == <<rankingWeights, garwPc, garwRet, garwReturned, garwInserts, nUpdates>>

embedVars == <<productEmbeddings, embedCalls>>

productVars == <<products, nextProductId>>

uploadVars == <<catalogUploadJobs, upPc, upInput, upJobId, upIds, upIdx, upCount,
                upError, nUploads>>

sessionVars == <<sessions, interactions, riPc, riInput, riResult, nRequests>>

searchVars == <<searchLogs, searchResultExplanations, srPc, srInput, srResults,
                srLogId, srLogged, searchResponse, nSearches>>

\* The state of the operations modelled one by one further down.
extraVars == <<viewed, matched, metrics, judged, conn, batch>>

vars == <<db, now, weightsVars, embedVars, productVars, uploadVars, sessionVars,
          recs, similar, extraVars, searchVars>>

\* What the actions on one table leave alone.
notWeightsVars == <<db, now, embedVars, productVars, uploadVars, sessionVars, recs, similar, extraVars,
    searchVars>>
notEmbedVars == <<db, now, weightsVars, productVars, uploadVars, sessionVars, recs, similar, extraVars,
    searchVars>>
notClockVars == <<db, weightsVars, embedVars, productVars, uploadVars, sessionVars, recs, similar, extraVars,
    searchVars>>
notUploadVars == <<db, now, weightsVars, sessionVars, recs, similar, extraVars,
    searchVars>>
notSessionVars == <<db, now, weightsVars, embedVars, productVars, uploadVars, recs, similar, extraVars,
    searchVars>>
notRecVars == <<db, now, weightsVars, embedVars, productVars, uploadVars, sessionVars,
    searchVars, extraVars>>
notSearchVars == <<db, now, weightsVars, embedVars, productVars, uploadVars,
    sessionVars, recs, similar, extraVars>>
notProductVars == <<db, now, weightsVars, uploadVars, sessionVars, recs, similar, extraVars,
    searchVars>>

\* What the operations on extraVars leave alone.
coreVars == <<db, now, weightsVars, embedVars, productVars, uploadVars, sessionVars,
    recs, similar, searchVars>>

\* What each of those operations leaves alone.
notViewedVars == <<coreVars, matched, metrics, judged, conn, batch>>
notMatchedVars == <<coreVars, viewed, metrics, judged, conn, batch>>
notMetricsVars == <<coreVars, viewed, matched, judged, conn, batch>>
notJudgedVars == <<coreVars, viewed, matched, metrics, conn, batch>>
notConnVars == <<coreVars, viewed, matched, metrics, judged, batch>>
notBatchVars == <<coreVars, viewed, matched, metrics, judged, conn>>

\* ------------------------------------------------------------------ bounds

NumCallers == 2
MaxUpdates == 2
MaxUpdateFields == 1
MaxProducts == 2
MaxEmbedCalls == 3
MaxNow == 45
TickDays == 15
MaxUploads == 2
MaxUploadRows == 1
NumRequests == 2
MaxSearches == 2
MaxAIResults == 2
MaxRequests == 2

\* ---------------------------------------------------------------- helpers

Range(s) == {s[i] : i \in DOMAIN s}

DbStates == {"handle", "null"}

\* ========================================================================
\* The clock
\* ========================================================================

\* Time passes between two requests.
Tick ==
    /\ now + TickDays <= MaxNow
    /\ now' = now + TickDays
    /\ UNCHANGED notClockVars

\* ========================================================================
\* product_embeddings
\* ========================================================================

ProductIds == 1..MaxProducts

\* Embedding vectors (jsonb number[]), all of Euclidean length 5.
Vectors == {<<5, 0>>, <<4, 3>>, <<3, 4>>, <<0, 5>>}

Texts == {"usb cable", "red lamp"}

\* The arguments createEmbedding is called with (generateProductEmbedding
\* passes productId, embedding and textUsed).
EmbeddingInputs(pids, vecs, texts) ==
    [productId : pids, embedding : vecs, textUsed : texts]

EmbeddingRowsOf(table, productId) ==
    {i \in DOMAIN table : table[i].productId = productId}

\* db.insert(productEmbeddings).values(embedding): a new row; createdAt and
\* updatedAt default to now().  (The serial id, which nothing reads, is left out.)
InsertEmbeddingRow(table, embedding) ==
    Append(table, [productId |-> embedding.productId,
                   embedding |-> embedding.embedding,
                   textUsed |-> embedding.textUsed,
                   createdAt |-> now, updatedAt |-> now])

\* The variant of createEmbedding that leaves a conflicting row as it is.
createEmbeddingDoNothing(table, embedding) ==
    IF EmbeddingRowsOf(table, embedding.productId) = {}
    THEN InsertEmbeddingRow(table, embedding)
    ELSE table

\* createEmbedding: insert ... onConflictDoUpdate({ target: productId,
\* set: { embedding, textUsed, updatedAt: new Date() } }).  product_id is
\* UNIQUE, so a row of the same product is updated in place.
createEmbedding(table, embedding) ==
    IF EmbeddingRowsOf(table, embedding.productId) = {}
    THEN InsertEmbeddingRow(table, embedding)
    ELSE [i \in DOMAIN table |->
            IF table[i].productId = embedding.productId
            THEN [table[i] EXCEPT !.embedding = embedding.embedding,
                                  !.textUsed = embedding.textUsed,
                                  !.updatedAt = now]
            ELSE table[i]]

\* getEmbeddingByProductId: select ... where productId = p limit 1; result[0].
\* The set of rows the call may return (empty: undefined).
getEmbeddingByProductId(productId) ==
    IF db = "null" THEN {}
    ELSE {productEmbeddings[i] : i \in EmbeddingRowsOf(productEmbeddings, productId)}

\* A call of createEmbedding(embedding).  Without a database it throws.
CreateEmbedding(embedding) ==
    /\ Len(embedCalls) < MaxEmbedCalls
    /\ embedCalls' = Append(embedCalls, embedding)
    /\ IF db = "null"
       THEN UNCHANGED productEmbeddings
       ELSE productEmbeddings' = createEmbedding(productEmbeddings, embedding)
    /\ UNCHANGED notEmbedVars

IdleEmbed ==
    /\ productEmbeddings = <<>>
    /\ embedCalls = <<>>

\* ========================================================================
\* ranking_weights
\* ========================================================================

WeightFields == {"alpha", "beta", "gamma", "delta", "epsilon"}

\* The decimal strings that occur: the literals of db.ts and the strings an
\* admin may send (z.string() accepts any string).  Value in thousandths.
DecimalLiterals ==
    [s \in {"0.500", "0.200", "0.150", "0.100", "0.050",
            "0.250", "-0.500", "10.000"} |->
        CASE s = "0.500" -> 500
          [] s = "0.200" -> 200
          [] s = "0.150" -> 150
          [] s = "0.100" -> 100
          [] s = "0.050" -> 50
          [] s = "0.250" -> 250
          [] s = "-0.500" -> -500
          [] s = "10.000" -> 10000]

\* What an admin sends as a weight ("abc" is no number at all).
WeightStrings == {"0.250", "-0.500", "10.000", "abc"}

\* decimal("...", { precision: 4, scale: 3 }): the column holds |x| < 10 with
\* three decimals; the database rejects anything else.
FitsNumeric43(s) ==
    /\ s \in DOMAIN DecimalLiterals
    /\ DecimalLiterals[s] < 10 * 1000
    /\ DecimalLiterals[s] > -10 * 1000

Numeric43(s) == DecimalLiterals[s]

\* The row getActiveRankingWeights inserts when no active row exists.
\* The default row written without its active flag.
DefaultWeightsRowInactive(id) ==
    [id |-> id, name |-> "default",
     alpha |-> Numeric43("0.500"), beta |-> Numeric43("0.200"),
     gamma |-> Numeric43("0.150"), delta |-> Numeric43("0.100"),
     epsilon |-> Numeric43("0.050"), isActive |-> FALSE]

DefaultWeightsRow(id) ==
    [id |-> id, name |-> "default",
     alpha |-> Numeric43("0.500"), beta |-> Numeric43("0.200"),
     gamma |-> Numeric43("0.150"), delta |-> Numeric43("0.100"),
     epsilon |-> Numeric43("0.050"), isActive |-> TRUE]

\* The row returned when the database is not available (id 0, not stored).
FallbackWeightsRow == DefaultWeightsRow(0)

NoRow == [id |-> -1]

ActiveRows == {r \in Range(rankingWeights) : r.isActive}

Callers == 1..NumCallers

\* getActiveRankingWeights is entered (from search, or from admin weights.get).
GarwCall(c) ==
    /\ garwPc[c] = "idle"
    /\ garwPc' = [garwPc EXCEPT ![c] = "select"]
    /\ garwInserts' = [garwInserts EXCEPT ![c] = 0]
    /\ UNCHANGED <<notWeightsVars, rankingWeights, garwRet, garwReturned, nUpdates>>

\* const db = await getDb(); if (!db) return defaults;
\* const result = await db.select()...where(isActive = true).limit(1);
\* if (result.length === 0) -> the insert is next; else return result[0].
GarwSelect(c) ==
    /\ garwPc[c] = "select"
    /\ IF db = "null"
       THEN /\ garwRet' = [garwRet EXCEPT ![c] = FallbackWeightsRow]
            /\ garwPc' = [garwPc EXCEPT ![c] = "idle"]
            /\ UNCHANGED garwReturned
       ELSE IF ActiveRows = {}
       THEN /\ garwPc' = [garwPc EXCEPT ![c] = "insert"]
            /\ UNCHANGED <<garwRet, garwReturned>>
       ELSE \E r \in ActiveRows :
            /\ garwRet' = [garwRet EXCEPT ![c] = r]
            /\ garwPc' = [garwPc EXCEPT ![c] = "idle"]
            /\ garwReturned' = TRUE
    /\ UNCHANGED <<notWeightsVars, rankingWeights, garwInserts, nUpdates>>

\* await db.insert(rankingWeights).values({default...});
\* return getActiveRankingWeights();   (the recursive call selects again)
GarwInsert(c) ==
    /\ garwPc[c] = "insert"
    /\ rankingWeights' =
           Append(rankingWeights, DefaultWeightsRow(Len(rankingWeights) + 1))
    /\ garwPc' = [garwPc EXCEPT ![c] = "select"]
    /\ garwInserts' = [garwInserts EXCEPT ![c] = garwInserts[c] + 1]
    /\ UNCHANGED <<notWeightsVars, garwRet, garwReturned, nUpdates>>

\* The inputs of admin weights.update: { id, alpha?, beta?, ... } with every
\* weight an optional string.
WeightUpdates ==
    UNION {[S -> WeightStrings] :
             S \in {T \in SUBSET WeightFields : Cardinality(T) <= MaxUpdateFields}}

\* db.update(rankingWeights).set(weights).where(eq(rankingWeights.id, id)):
\* the fields given replace those of the row; the statement fails as a whole
\* when a value does not fit the column.
SetWeights(row, weights) ==
    [f \in DOMAIN row |->
        IF f \in DOMAIN weights THEN Numeric43(weights[f]) ELSE row[f]]

updateRankingWeights(id, weights) ==
    IF db = "null" THEN rankingWeights
    ELSE IF \E f \in DOMAIN weights : ~FitsNumeric43(weights[f])
    THEN rankingWeights
    ELSE [i \in DOMAIN rankingWeights |->
            IF rankingWeights[i].id = id
            THEN SetWeights(rankingWeights[i], weights)
            ELSE rankingWeights[i]]

\* admin.weights.update: const { id, ...weights } = input;
\* await updateRankingWeights(id, weights).
WeightsUpdate(id, weights) ==
    /\ nUpdates < MaxUpdates
    /\ nUpdates' = nUpdates + 1
    /\ rankingWeights' = updateRankingWeights(id, weights)
    /\ UNCHANGED <<notWeightsVars, garwPc, garwRet, garwReturned, garwInserts>>

IdleWeights ==
    /\ rankingWeights = <<>>
    /\ garwPc = [c \in Callers |-> "idle"]
    /\ garwRet = [c \in Callers |-> NoRow]
    /\ garwReturned = FALSE
    /\ garwInserts = [c \in Callers |-> 0]
    /\ nUpdates = 0


\* ========================================================================
\* Text
\* ========================================================================

\* A string is a sequence of characters.
UpperCase == <<"A", "B", "C", "D", "E", "F", "G", "H", "I", "J", "K", "L", "M",
               "N", "O", "P", "Q", "R", "S", "T", "U", "V", "W", "X", "Y", "Z">>
LowerCase == <<"a", "b", "c", "d", "e", "f", "g", "h", "i", "j", "k", "l", "m",
               "n", "o", "p", "q", "r", "s", "t", "u", "v", "w", "x", "y", "z">>

\* String.prototype.toLowerCase, character by character.
LowerChar(c) ==
    IF \E i \in DOMAIN UpperCase : UpperCase[i] = c
    THEN LowerCase[CHOOSE i \in DOMAIN UpperCase : UpperCase[i] = c]
    ELSE c

toLowerCase(str) == [i \in DOMAIN str |-> LowerChar(str[i])]

\* String.prototype.charCodeAt for the characters of the model.
charCode(c) ==
    IF \E i \in DOMAIN LowerCase : LowerCase[i] = c
    THEN 96 + (CHOOSE i \in DOMAIN LowerCase : LowerCase[i] = c)
    ELSE IF \E i \in DOMAIN UpperCase : UpperCase[i] = c
    THEN 64 + (CHOOSE i \in DOMAIN UpperCase : UpperCase[i] = c)
    ELSE 32

\* [a, b, ...].filter(Boolean).join(" ")
RECURSIVE JoinNonEmpty(_)
JoinNonEmpty(strs) ==
    IF strs = <<>> THEN <<>>
    ELSE LET rest == JoinNonEmpty(Tail(strs))
         IN  IF Head(strs) = <<>> THEN rest
             ELSE IF rest = <<>> THEN Head(strs)
             ELSE Head(strs) \o <<" ">> \o rest

RECURSIVE SumCodes(_)
SumCodes(str) ==
    IF str = <<>> THEN 0 ELSE charCode(Head(str)) + SumCodes(Tail(str))

\* ========================================================================
\* products
\* ========================================================================

\* null in a numeric column
NullNum == -1

StrUsb == <<"U", "S", "B">>
StrLamp == <<"L", "a", "m", "p">>
StrTech == <<"t", "e", "c", "h">>

\* The rows an admin sends to products.create and catalog.upload (after zod's
\* defaults: availability in_stock, stockQuantity 100, isFeatured false).
\* Prices are in pence, ratings in hundredths.
UsbInput ==
    [title |-> StrUsb, description |-> <<>>, category |-> StrTech,
     price |-> 500, rating |-> 450, availability |-> "in_stock",
     stockQuantity |-> 100, isFeatured |-> FALSE]

LampInput ==
    [title |-> StrLamp, description |-> <<>>, category |-> <<>>,
     price |-> NullNum, rating |-> NullNum, availability |-> "in_stock",
     stockQuantity |-> 100, isFeatured |-> TRUE]

ProductInputs == {UsbInput, LampInput}

\* db.insert(products).values(product): the row gets the next serial id and
\* createdAt = now().
ProductRow(id, product) ==
    [id |-> id, title |-> product.title, description |-> product.description,
     category |-> product.category, price |-> product.price,
     rating |-> product.rating, availability |-> product.availability,
     stockQuantity |-> product.stockQuantity, isFeatured |-> product.isFeatured,
     createdAt |-> now]

\* createProducts: one multi-row insert of the list, in list order.
createProducts(productList) ==
    products \o [i \in 1..Len(productList) |->
                    ProductRow(nextProductId + i - 1, productList[i])]

\* getProductById: select ... where id = id limit 1; result[0].
HasProduct(id) == \E i \in DOMAIN products : products[i].id = id

getProductById(id) == products[CHOOSE i \in DOMAIN products : products[i].id = id]

\* deleteProduct: db.delete(products).where(eq(products.id, id)).
deleteProduct(id) ==
    LET keep(row) == row.id # id IN SelectSeq(products, keep)

\* admin.products.delete
ProductsDelete(id) ==
    /\ db = "handle"
    /\ HasProduct(id)
    /\ products' = deleteProduct(id)
    /\ UNCHANGED <<nextProductId, embedVars, notProductVars>>

\* generateDeterministicEmbedding(text): a fixed function of the lowercased
\* text.  The 384 sines are replaced by a hash into the model's vectors.
VectorList == <<<<5, 0>>, <<4, 3>>, <<3, 4>>, <<0, 5>>>>

generateEmbedding(text) ==
    VectorList[(SumCodes(toLowerCase(text)) % Len(VectorList)) + 1]

\* generateProductEmbedding: the text to embed.
textToEmbed(product) ==
    JoinNonEmpty(<<product.title, product.description, product.category>>)

\* ========================================================================
\* catalog_upload_jobs and admin.catalog.upload
\* ========================================================================

NoError == "none"

\* db.update(table).set(updates).where(eq(table.id, id))
SetFields(row, updates) ==
    [f \in DOMAIN row |-> IF f \in DOMAIN updates THEN updates[f] ELSE row[f]]

\* createUploadJob: the row inserted (processedRows, embeddedRows default 0).
UploadJobRow(id, job) ==
    [id |-> id, status |-> job.status, totalRows |-> job.totalRows,
     processedRows |-> 0, embeddedRows |-> 0, errorMessage |-> NoError,
     startedAt |-> job.startedAt, completedAt |-> NullNum]

\* updateUploadJob: if (!db) return; update ... set(updates) where id = id.
updateUploadJob(id, updates) ==
    IF db = "null" THEN catalogUploadJobs
    ELSE [i \in DOMAIN catalogUploadJobs |->
            IF catalogUploadJobs[i].id = id
            THEN SetFields(catalogUploadJobs[i], updates)
            ELSE catalogUploadJobs[i]]

\* The handler's locals before a call and after it has ended.
NoUploadInput == [products |-> <<>>, generateEmbeddings |-> FALSE]
NoUploadCount == [success |-> 0, failed |-> 0]

UploadEnds ==
    /\ upPc' = "idle"
    /\ upInput' = NoUploadInput
    /\ upJobId' = 0
    /\ upIds' = <<>>
    /\ upIdx' = 0
    /\ upCount' = NoUploadCount
    /\ upError' = NoError

\* The inputs of admin.catalog.upload.
UploadInputs ==
    [products : UNION {[1..n -> ProductInputs] : n \in 0..MaxUploadRows},
     generateEmbeddings : BOOLEAN]

\* const jobId = await createUploadJob({status: "processing", totalRows, ...});
\* outside the try block: when it throws the handler ends with no job.
UploadCreateJob(input, ok) ==
    /\ upPc = "idle"
    /\ nUploads < MaxUploads
    /\ nUploads' = nUploads + 1
    /\ IF db = "handle" /\ ok
       THEN /\ catalogUploadJobs' =
                   Append(catalogUploadJobs,
                          UploadJobRow(Len(catalogUploadJobs) + 1,
                                       [status |-> "processing",
                                        totalRows |-> Len(input.products),
                                        startedAt |-> now]))
            /\ upJobId' = Len(catalogUploadJobs) + 1
            /\ upInput' = input
            /\ upPc' = "createProducts"
       ELSE UNCHANGED <<catalogUploadJobs, upJobId, upInput, upPc>>
    /\ UNCHANGED <<notUploadVars, embedVars, productVars, upIds, upIdx, upCount,
                   upError>>

\* try { await createProducts(input.products);
UploadCreateProducts(ok) ==
    /\ upPc = "createProducts"
    /\ IF ok
       THEN /\ products' = createProducts(upInput.products)
            /\ nextProductId' = nextProductId + Len(upInput.products)
            /\ upPc' = "markProcessed"
            /\ UNCHANGED upError
       ELSE /\ upError' = "createProducts failed"
            /\ upPc' = "catch"
            /\ UNCHANGED productVars
    /\ UNCHANGED <<notUploadVars, embedVars, catalogUploadJobs, upInput, upJobId,
                   upIds, upIdx, upCount, nUploads>>

\* await updateUploadJob(jobId, { processedRows: input.products.length,
\*     status: input.generateEmbeddings ? "embedding" : "completed" });
UploadMarkProcessed(ok) ==
    /\ upPc = "markProcessed"
    /\ IF ok
       THEN /\ catalogUploadJobs' =
                   updateUploadJob(upJobId,
                       [processedRows |-> Len(upInput.products),
                        status |-> IF upInput.generateEmbeddings
                                   THEN "embedding" ELSE "completed"])
            /\ upPc' = IF upInput.generateEmbeddings
                       THEN "listProducts" ELSE "markCompletedAt"
            /\ UNCHANGED upError
       ELSE /\ upError' = "updateUploadJob failed"
            /\ upPc' = "catch"
            /\ UNCHANGED catalogUploadJobs
    /\ UNCHANGED <<notUploadVars, embedVars, productVars, upInput, upJobId,
                   upIds, upIdx, upCount, nUploads>>

\* The orders in which getAllProducts may return the rows: orderBy
\* desc(createdAt), rows of equal createdAt in any order.
RowOrders(rows) ==
    {o \in [1..Len(rows) -> 1..Len(rows)] :
        /\ \A i, j \in 1..Len(rows) : i # j => o[i] # o[j]
        /\ \A i, j \in 1..Len(rows) :
              i < j => rows[o[i]].createdAt >= rows[o[j]].createdAt}

\* const allProducts = await getAllProducts(10000, 0);
\* const newProductIds = allProducts
\*     .filter(p => input.products.some(ip => ip.title === p.title)).map(p => p.id);
UploadListProducts(ok) ==
    /\ upPc = "listProducts"
    /\ IF ok
       THEN \E o \in RowOrders(products) :
            LET all == [i \in 1..Len(products) |-> products[o[i]]]
                isNew(p) == \E i \in DOMAIN upInput.products :
                                upInput.products[i].title = p.title
                new == SelectSeq(all, isNew)
            IN  /\ upIds' = [i \in 1..Len(new) |-> new[i].id]
                /\ upPc' = "embed"
                /\ UNCHANGED upError
       ELSE /\ upError' = "getAllProducts failed"
            /\ upPc' = "catch"
            /\ UNCHANGED upIds
    /\ UNCHANGED <<notUploadVars, embedVars, productVars, catalogUploadJobs,
                   upInput, upJobId, upIdx, upCount, nUploads>>

\* batchGenerateEmbeddings, one turn of its loop: generateProductEmbedding
\* returns false when the product is gone or createEmbedding throws (it
\* catches every error), true after the embedding is stored.
UploadEmbedOne(ok) ==
    /\ upPc = "embed"
    /\ upIdx < Len(upIds)
    /\ LET productId == upIds[upIdx + 1]
       IN  IF HasProduct(productId) /\ ok
           THEN /\ productEmbeddings' =
                       createEmbedding(productEmbeddings,
                           [productId |-> productId,
                            embedding |->
                                generateEmbedding(textToEmbed(getProductById(productId))),
                            textUsed |-> textToEmbed(getProductById(productId))])
                /\ upCount' = [upCount EXCEPT !.success = @ + 1]
           ELSE /\ upCount' = [upCount EXCEPT !.failed = @ + 1]
                /\ UNCHANGED productEmbeddings
    /\ upIdx' = upIdx + 1
    /\ UNCHANGED <<notUploadVars, embedCalls, productVars, catalogUploadJobs,
                   upPc, upInput, upJobId, upIds, upError, nUploads>>

\* await updateUploadJob(jobId, { embeddedRows: embeddingResult.success,
\*     status: "completed", completedAt: new Date() });
\* await notifyOwner(...).catch(...); return { jobId, success: true };
UploadMarkCompleted(ok) ==
    /\ upPc = "embed"
    /\ upIdx = Len(upIds)
    /\ IF ok
       THEN /\ catalogUploadJobs' =
                   updateUploadJob(upJobId,
                       [embeddedRows |-> upCount.success,
                        status |-> "completed", completedAt |-> now])
            /\ UploadEnds
       ELSE /\ upError' = "updateUploadJob failed"
            /\ upPc' = "catch"
            /\ UNCHANGED <<catalogUploadJobs, upInput, upJobId, upIds, upIdx,
                           upCount>>
    /\ UNCHANGED <<notUploadVars, embedVars, productVars, nUploads>>

\* else { await updateUploadJob(jobId, { completedAt: new Date() });
\* await notifyOwner(...).catch(...); } return { jobId, success: true };
UploadMarkCompletedAt(ok) ==
    /\ upPc = "markCompletedAt"
    /\ IF ok
       THEN /\ catalogUploadJobs' = updateUploadJob(upJobId, [completedAt |-> now])
            /\ UploadEnds
       ELSE /\ upError' = "updateUploadJob failed"
            /\ upPc' = "catch"
            /\ UNCHANGED <<catalogUploadJobs, upInput, upJobId, upIds, upIdx,
                           upCount>>
    /\ UNCHANGED <<notUploadVars, embedVars, productVars, nUploads>>

\* catch (error) { await updateUploadJob(jobId, { status: "failed",
\*     errorMessage }); await notifyOwner(...).catch(...); throw error; }
UploadCatch(ok) ==
    /\ upPc = "catch"
    /\ catalogUploadJobs' =
           IF ok
           THEN updateUploadJob(upJobId,
                    [status |-> "failed", errorMessage |-> upError])
           ELSE catalogUploadJobs
    /\ UploadEnds
    /\ UNCHANGED <<notUploadVars, embedVars, productVars, nUploads>>

IdleProducts ==
    /\ products = <<>>
    /\ nextProductId = 1

IdleUpload ==
    /\ catalogUploadJobs = <<>>
    /\ upPc = "idle"
    /\ upInput = NoUploadInput
    /\ upJobId = 0
    /\ upIds = <<>>
    /\ upIdx = 0
    /\ upCount = NoUploadCount
    /\ upError = NoError
    /\ nUploads = 0

\* ========================================================================
\* sessions, interactions and session.recordInteraction
\* ========================================================================

\* interactionTypeEnum
InteractionTypes == {"view", "click", "search_click", "add_to_cart", "purchase"}

\* expiresAt: new Date(Date.now() + 30 * 24 * 60 * 60 * 1000), in days
SessionTtlDays == 30

Requests == 1..NumRequests

NoInteraction == [sessionId |-> "", productId |-> 0, interactionType |-> ""]

\* getSessionById: select ... where sessionId = sessionId limit 1; result[0].
HasSession(sessionId) ==
    db = "handle" /\ \E i \in DOMAIN sessions : sessions[i].sessionId = sessionId

\* The inputs of session.recordInteraction, with the session id of the cookie.
InteractionInputs(sids, pids, kinds) ==
    [sessionId : sids, productId : pids, interactionType : kinds]

\* The request arrives: zod checks the input (interactionType is z.enum), then
\* const existingSession = await getSessionById(sessionId).
RiGetSession(r, input) ==
    /\ riPc[r] = "idle"
    /\ nRequests < MaxRequests
    /\ nRequests' = nRequests + 1
    /\ IF input.interactionType \notin InteractionTypes
       THEN /\ riResult' = [riResult EXCEPT ![r] = "BAD_REQUEST"]
            /\ UNCHANGED <<riPc, riInput>>
       ELSE /\ riResult' = [riResult EXCEPT ![r] = "pending"]
            /\ riInput' = [riInput EXCEPT ![r] = input]
            /\ riPc' = [riPc EXCEPT ![r] =
                          IF HasSession(input.sessionId)
                          THEN "updateSessionActivity" ELSE "createSession"]
    /\ UNCHANGED <<notSessionVars, sessions, interactions>>

\* if (!existingSession) await createSession({ sessionId, expiresAt: now + 30 d });
\* sessions.session_id is UNIQUE: the insert throws when a row of this id has
\* been inserted since the select; without a database createSession throws.
RiCreateSession(r) ==
    /\ riPc[r] = "createSession"
    /\ IF db = "null" \/ HasSession(riInput[r].sessionId)
       THEN /\ riResult' = [riResult EXCEPT ![r] = "error"]
            /\ riPc' = [riPc EXCEPT ![r] = "idle"]
            /\ riInput' = [riInput EXCEPT ![r] = NoInteraction]
            /\ UNCHANGED sessions
       ELSE /\ sessions' = Append(sessions,
                   [sessionId |-> riInput[r].sessionId, createdAt |-> now,
                    lastActiveAt |-> now, expiresAt |-> now + SessionTtlDays])
            /\ riPc' = [riPc EXCEPT ![r] = "recordInteraction"]
            /\ UNCHANGED <<riResult, riInput>>
    /\ UNCHANGED <<notSessionVars, interactions, nRequests>>

\* else await updateSessionActivity(sessionId): set lastActiveAt = new Date().
RiUpdateSessionActivity(r) ==
    /\ riPc[r] = "updateSessionActivity"
    /\ sessions' = [i \in DOMAIN sessions |->
                      IF db = "handle" /\ sessions[i].sessionId = riInput[r].sessionId
                      THEN [sessions[i] EXCEPT !.lastActiveAt = now]
                      ELSE sessions[i]]
    /\ riPc' = [riPc EXCEPT ![r] = "recordInteraction"]
    /\ UNCHANGED <<notSessionVars, interactions, riInput, riResult, nRequests>>

\* recordInteraction: db.insert(sessionInteractions).values(interaction);
\* createdAt defaults to now().
recordInteraction(interaction) ==
    Append(interactions,
           [sessionId |-> interaction.sessionId,
            productId |-> interaction.productId,
            interactionType |-> interaction.interactionType,
            createdAt |-> now])

\* await recordInteraction({...}); return { success: true };
RiRecordInteraction(r) ==
    /\ riPc[r] = "recordInteraction"
    /\ IF db = "null"
       THEN /\ riResult' = [riResult EXCEPT ![r] = "error"]
            /\ UNCHANGED interactions
       ELSE /\ interactions' = recordInteraction(riInput[r])
            /\ riResult' = [riResult EXCEPT ![r] = "success"]
    /\ riPc' = [riPc EXCEPT ![r] = "idle"]
    /\ riInput' = [riInput EXCEPT ![r] = NoInteraction]
    /\ UNCHANGED <<notSessionVars, sessions, nRequests>>

IdleSessions ==
    /\ sessions = <<>>
    /\ interactions = <<>>
    /\ riPc = [r \in Requests |-> "idle"]
    /\ riInput = [r \in Requests |-> NoInteraction]
    /\ riResult = [r \in Requests |-> "none"]
    /\ nRequests = 0

\* admin.products.create: const productId = await createProduct(input);
\* await generateProductEmbedding(productId), which stores the embedding of
\* the product's text or, when createEmbedding throws, logs and returns false.
ProductsCreate(input, embedOk) ==
    /\ db = "handle"
    /\ nextProductId <= MaxProducts
    /\ products' = createProducts(<<input>>)
    /\ nextProductId' = nextProductId + 1
    /\ IF embedOk
       THEN productEmbeddings' =
                createEmbedding(productEmbeddings,
                    [productId |-> nextProductId,
                     embedding |-> generateEmbedding(textToEmbed(input)),
                     textUsed |-> textToEmbed(input)])
       ELSE UNCHANGED productEmbeddings
    /\ UNCHANGED <<embedCalls, notProductVars>>

\* ========================================================================
\* Rational numbers: [num, den] with den > 0, in lowest terms
\* ========================================================================

Abs(n) == IF n < 0 THEN -n ELSE n

RECURSIVE GCD(_, _)
GCD(a, b) == IF b = 0 THEN a ELSE GCD(b, a % b)

Rat(n, d) ==
    LET g == GCD(Abs(n), d)
    IN  [num |-> n \div g, den |-> d \div g]

\* The arithmetic goes through the least common denominator, which keeps the
\* intermediate integers small.
RatAdd(a, b) ==
    LET g == GCD(a.den, b.den)
    IN  Rat(a.num * (b.den \div g) + b.num * (a.den \div g), (a.den \div g) * b.den)

RatNeg(a) == [num |-> 0 - a.num, den |-> a.den]

RatSub(a, b) == RatAdd(a, RatNeg(b))

RatMul(a, b) ==
    LET g1 == GCD(Abs(a.num), b.den)
        g2 == GCD(Abs(b.num), a.den)
    IN  IF a.num = 0 \/ b.num = 0 THEN Rat(0, 1)
        ELSE Rat((a.num \div g1) * (b.num \div g2), (a.den \div g2) * (b.den \div g1))

RatLess(a, b) ==
    LET g == GCD(a.den, b.den)
    IN  a.num * (b.den \div g) < b.num * (a.den \div g)

RatMax(a, b) == IF RatLess(a, b) THEN b ELSE a
RatMin(a, b) == IF RatLess(b, a) THEN b ELSE a

RECURSIVE RatSum(_)
RatSum(seq) == IF seq = <<>> THEN Rat(0, 1) ELSE RatAdd(Head(seq), RatSum(Tail(seq)))

\* Math.sqrt of a perfect square (the vectors of the model have integer length).
Sqrt(n) == CHOOSE r \in 0..n : r * r = n

RECURSIVE SumSeq(_)
SumSeq(seq) == IF seq = <<>> THEN 0 ELSE Head(seq) + SumSeq(Tail(seq))

\* cosineSimilarity(a, b): 0 on a dimension mismatch or a zero magnitude,
\* else dotProduct / (sqrt(normA) * sqrt(normB)).
cosineSimilarity(a, b) ==
    IF Len(a) # Len(b) THEN Rat(0, 1)
    ELSE LET dotProduct == SumSeq([i \in DOMAIN a |-> a[i] * b[i]])
             normA == SumSeq([i \in DOMAIN a |-> a[i] * a[i]])
             normB == SumSeq([i \in DOMAIN b |-> b[i] * b[i]])
             magnitude == Sqrt(normA) * Sqrt(normB)
         IN  IF magnitude = 0 THEN Rat(0, 1) ELSE Rat(dotProduct, magnitude)

\* ========================================================================
\* recommendations
\* ========================================================================

\* All orders of the indices of a list.
IndexOrders(n) ==
    {o \in [1..n -> 1..n] : \A i, j \in 1..n : i # j => o[i] # o[j]}

\* seq.slice(0, n)
Slice(seq, n) == SubSeq(seq, 1, IF n < Len(seq) THEN n ELSE Len(seq))

\* getSessionInteractions(sessionId, limit): the session's rows, most recent
\* first, at most limit of them; rows of one timestamp come in either order.
getSessionInteractions(sessionId, limit) ==
    IF db = "null" THEN {<<>>}
    ELSE LET mine(row) == row.sessionId = sessionId
             rows == SelectSeq(interactions, mine)
         IN  {Slice([i \in 1..Len(rows) |-> rows[o[i]]], limit) : o \in RowOrders(rows)}

\* getFeaturedProducts(limit): featured products by rating descending (a null
\* rating sorts first in a descending PostgreSQL order), at most limit rows;
\* rows of one rating come in either order.
getFeaturedProducts(limit) ==
    IF db = "null" THEN {<<>>}
    ELSE LET isFeatured(row) == row.isFeatured
             rows == SelectSeq(products, isFeatured)
             before(a, b) == a.rating = NullNum \/ (b.rating # NullNum /\ a.rating >= b.rating)
         IN  {Slice([i \in 1..Len(rows) |-> rows[o[i]]], limit) :
                 o \in {q \in IndexOrders(Len(rows)) :
                          \A i, j \in 1..Len(rows) : i < j => before(rows[q[i]], rows[q[j]])}}

\* getProductsWithEmbeddings: products inner join product_embeddings, in any
\* order.
getProductsWithEmbeddings ==
    IF db = "null" THEN {<<>>}
    ELSE LET pairs == {<<i, j>> \in (DOMAIN products) \X (DOMAIN productEmbeddings) :
                          products[i].id = productEmbeddings[j].productId}
         IN  {seq \in [1..Cardinality(pairs) -> pairs] :
                  \A a, b \in 1..Cardinality(pairs) : a # b => seq[a] # seq[b]}

\* A response element without sourceProductId.
NoSource == -1

\* The cold start fetching only limit featured rows.
getColdStartRecommendationsNoSlack(limit, excludeProductIds) ==
    {LET keep(p) == p.id \notin Range(excludeProductIds)
         kept == Slice(SelectSeq(featured, keep), limit)
     IN  [i \in 1..Len(kept) |->
            [productId |-> kept[i].id, score |-> Rat(1, 1),
             reason |-> "Popular product", sourceProductId |-> NoSource]] :
     featured \in getFeaturedProducts(limit)}

\* getColdStartRecommendations(limit, excludeProductIds)
getColdStartRecommendations(limit, excludeProductIds) ==
    {LET keep(p) == p.id \notin Range(excludeProductIds)
         kept == Slice(SelectSeq(featured, keep), limit)
     IN  [i \in 1..Len(kept) |->
            [productId |-> kept[i].id, score |-> Rat(1, 1),
             reason |-> "Popular product", sourceProductId |-> NoSource]] :
     featured \in getFeaturedProducts(limit + Len(excludeProductIds))}

\* Every interaction kind weighs the same.
interactionWeightsFlat(kind) == 1

\* interactionWeights[interaction.interactionType] || 1
interactionWeights(kind) ==
    CASE kind = "purchase" -> 5
      [] kind = "add_to_cart" -> 4
      [] kind = "search_click" -> 3
      [] kind = "click" -> 2
      [] OTHER -> 1

\* The reason by the raw cosine alone.
generateRecommendationReasonBySimilarity(similarity, interactionType) ==
    IF RatLess(Rat(8, 10), similarity) THEN "Very similar to items you viewed"
    ELSE IF RatLess(Rat(6, 10), similarity) THEN "Similar to your interests"
    ELSE IF RatLess(Rat(4, 10), similarity) THEN "Related to your browsing"
    ELSE "You might like this"

\* generateRecommendationReason(similarity, interactionType)
generateRecommendationReason(similarity, interactionType) ==
    IF interactionType = "purchase" THEN "Based on your purchase"
    ELSE IF interactionType = "add_to_cart" THEN "Similar to items in your cart"
    ELSE IF RatLess(Rat(8, 10), similarity) THEN "Very similar to items you viewed"
    ELSE IF RatLess(Rat(6, 10), similarity) THEN "Similar to your interests"
    ELSE IF RatLess(Rat(4, 10), similarity) THEN "Related to your browsing"
    ELSE "You might like this"

\* const interactions = await getSessionInteractions(sessionId, 20)
InteractionLimit == 20

\* score = weight * recencyBoost, recencyBoost = 1 + (n - index) / n, for the
\* i-th most recent interaction (index = i - 1).
InteractionScore(recent, i) ==
    RatMul(Rat(interactionWeights(recent[i].interactionType), 1),
           Rat(2 * Len(recent) - i + 1, Len(recent)))

\* productScores.get(productId): the interaction kept for the product, the
\* first one with the highest score (a later one replaces it only when
\* existing.score < score).
BestIndex(recent, productId) ==
    CHOOSE i \in DOMAIN recent :
        /\ recent[i].productId = productId
        /\ \A j \in DOMAIN recent :
              recent[j].productId = productId =>
                  /\ ~RatLess(InteractionScore(recent, i), InteractionScore(recent, j))
                  /\ j < i => RatLess(InteractionScore(recent, j),
                                      InteractionScore(recent, i))

\* Array.from(productScores.keys()): the products in order of first occurrence.
InteractedProductIds(recent) ==
    LET first(i) == \A j \in 1..(i - 1) : recent[j].productId # recent[i].productId
        firsts == SelectSeq([i \in DOMAIN recent |-> i], first)
    IN  [k \in DOMAIN firsts |-> recent[firsts[k]].productId]

\* interactedEmbeddings: the interacted products that have an embedding row.
InteractedEmbeddings(recent) ==
    LET ids == InteractedProductIds(recent)
        has(productId) == getEmbeddingByProductId(productId) # {}
        withEmbedding == SelectSeq(ids, has)
    IN  [k \in DOMAIN withEmbedding |->
            [productId |-> withEmbedding[k],
             embedding |-> (CHOOSE row \in getEmbeddingByProductId(withEmbedding[k]) :
                               TRUE).embedding,
             score |-> InteractionScore(recent, BestIndex(recent, withEmbedding[k]))]]

\* The body of the loop over allProducts for one product with its embedding.
ScoreCandidate(productId, embedding, recent) ==
    LET interacted == InteractedEmbeddings(recent)
        similarity == [k \in DOMAIN interacted |->
                          cosineSimilarity(embedding, interacted[k].embedding)]
        totalScore == RatSum([k \in DOMAIN interacted |->
                                 RatMul(similarity[k], interacted[k].score)])
        positive == {k \in DOMAIN interacted : RatLess(Rat(0, 1), similarity[k])}
        best == CHOOSE k \in positive :
                    \A j \in positive :
                        /\ ~RatLess(similarity[k], similarity[j])
                        /\ j < k => RatLess(similarity[j], similarity[k])
        bestMatch == IF positive = {}
                     THEN [productId |-> 0, similarity |-> Rat(0, 1), type |-> "undefined"]
                     ELSE [productId |-> interacted[best].productId,
                           similarity |-> similarity[best],
                           type |-> recent[BestIndex(recent, interacted[best].productId)]
                                        .interactionType]
    IN  [productId |-> productId,
         score |-> RatMul(totalScore, Rat(1, Len(interacted))),
         reason |-> generateRecommendationReason(bestMatch.similarity, bestMatch.type),
         sourceProductId |-> bestMatch.productId]

\* recommendations.sort((a, b) => b.score - a.score): stable, by score
\* descending.
SortByScore(seq) ==
    LET o == CHOOSE q \in IndexOrders(Len(seq)) :
                 \A i, j \in 1..Len(seq) :
                     i < j => \/ RatLess(seq[q[j]].score, seq[q[i]].score)
                              \/ seq[q[j]].score = seq[q[i]].score /\ q[i] < q[j]
    IN  [i \in 1..Len(seq) |-> seq[o[i]]]

\* The similarity path of getSessionRecommendations for one order of the
\* interactions and one order of the joined rows.
SimilarityRecommendations(recent, allProducts, limit, excludeProductIds) ==
    LET excludeSet == Range(excludeProductIds) \cup Range(InteractedProductIds(recent))
        scored == [k \in DOMAIN allProducts |->
                      ScoreCandidate(products[allProducts[k][1]].id,
                                     productEmbeddings[allProducts[k][2]].embedding,
                                     recent)]
        keep(r) == r.productId \notin excludeSet /\ RatLess(Rat(1, 10), r.score)
    IN  Slice(SortByScore(SelectSeq(scored, keep)), limit)

\* getSessionRecommendations(sessionId, {limit, excludeProductIds}): the set
\* of responses the call can return.
getSessionRecommendations(sessionId, limit, excludeProductIds) ==
    UNION {IF Len(recent) = 0 \/ Len(InteractedEmbeddings(recent)) = 0
           THEN getColdStartRecommendations(limit, excludeProductIds)
           ELSE {SimilarityRecommendations(recent, allProducts, limit, excludeProductIds) :
                    allProducts \in getProductsWithEmbeddings} :
           recent \in getSessionInteractions(sessionId, InteractionLimit)}

NoRecs == [sessionId |-> "", limit |-> 0, excludeProductIds |-> <<>>, result |-> <<>>]

\* recommendations.forSession: the session id of the cookie and the input.
ForSession(sessionId, limit, excludeProductIds) ==
    /\ \E result \in getSessionRecommendations(sessionId, limit, excludeProductIds) :
          recs' = [sessionId |-> sessionId, limit |-> limit,
                   excludeProductIds |-> excludeProductIds, result |-> result]
    /\ UNCHANGED <<notRecVars, similar>>

\* getProductsByIds(ids): select ... where id in ids, without ORDER BY: the
\* rows come in any order.
getProductsByIds(ids) ==
    IF db = "null" \/ ids = <<>> THEN {<<>>}
    ELSE LET wanted(row) == row.id \in Range(ids)
             rows == SelectSeq(products, wanted)
         IN  {[k \in DOMAIN rows |-> rows[o[k]]] : o \in IndexOrders(Len(rows))}

\* getCategoryBasedRecommendations(productId, limit): the cold start when the
\* product is missing or has no category, else the products with embeddings
\* of exactly its category.
getCategoryBasedRecommendations(productId, limit) ==
    LET found == CHOOSE rows \in getProductsByIds(<<productId>>) : TRUE
    IN  IF found = <<>> \/ found[1].category = <<>>
        THEN getColdStartRecommendations(limit, <<productId>>)
        ELSE {LET same(pair) == /\ products[pair[1]].id # productId
                                /\ products[pair[1]].category = found[1].category
                  kept == Slice(SelectSeq(allProducts, same), limit)
              IN  [k \in DOMAIN kept |->
                     [productId |-> products[kept[k][1]].id, score |-> Rat(1, 2),
                      reason |-> "Same category", sourceProductId |-> productId]] :
              allProducts \in getProductsWithEmbeddings}

\* (similarity * 100).toFixed(0), for a similarity that is not negative.
PercentFixed0(similarity) ==
    (2 * 100 * similarity.num + similarity.den) \div (2 * similarity.den)

\* The scan of getSimilarProducts for one order of the joined rows and a
\* similarity threshold.
SimilarScan(productId, target, allProducts, threshold, limit) ==
    LET scored == [k \in DOMAIN allProducts |->
                      LET similarity ==
                              cosineSimilarity(target,
                                  productEmbeddings[allProducts[k][2]].embedding)
                      IN  [productId |-> products[allProducts[k][1]].id,
                           score |-> similarity,
                           reason |-> "% similar",
                           percent |-> IF RatLess(similarity, Rat(0, 1)) THEN 0
                                       ELSE PercentFixed0(similarity),
                           sourceProductId |-> productId]]
        keep(r) == r.productId # productId /\ RatLess(threshold, r.score)
    IN  Slice(SortByScore(SelectSeq(scored, keep)), limit)

\* The scan keeping every other product with an embedding.
getSimilarProductsNoThreshold(productId, limit) ==
    LET rows == getEmbeddingByProductId(productId)
    IN  IF rows = {} THEN getCategoryBasedRecommendations(productId, limit)
        ELSE {SimilarScan(productId, (CHOOSE row \in rows : TRUE).embedding,
                          allProducts, Rat(-2, 1), limit) :
                 allProducts \in getProductsWithEmbeddings}

\* getSimilarProducts(productId, limit): the set of responses the call can
\* return.
getSimilarProducts(productId, limit) ==
    LET rows == getEmbeddingByProductId(productId)
    IN  IF rows = {} THEN getCategoryBasedRecommendations(productId, limit)
        ELSE {SimilarScan(productId, (CHOOSE row \in rows : TRUE).embedding,
                          allProducts, Rat(3, 10), limit) :
                 allProducts \in getProductsWithEmbeddings}

NoSimilar == [productId |-> 0, limit |-> 0, result |-> <<>>]

\* recommendations.similar
Similar(productId, limit) ==
    /\ \E result \in getSimilarProducts(productId, limit) :
          similar' = [productId |-> productId, limit |-> limit, result |-> result]
    /\ UNCHANGED <<notRecVars, recs>>

IdleRecs == recs = NoRecs /\ similar = NoSimilar

\* getRecentlyViewedProducts(sessionId, limit): the ids of the products the
\* call can return, in the order it returns them.
getRecentlyViewedProducts(sessionId, limit) ==
    IF db = "null" THEN {<<>>}
    ELSE LET isView(row) == row.sessionId = sessionId /\ row.interactionType = "view"
             rows == SelectSeq(interactions, isView)
         IN  UNION {LET top == Slice([i \in 1..Len(rows) |-> rows[o[i]]], limit)
                        productIds == InteractedProductIds(top)
                    IN  {[k \in DOMAIN found |-> found[k].id] :
                            found \in getProductsByIds(productIds)} :
                    o \in RowOrders(rows)}

NoViewed == [sessionId |-> "", limit |-> 0, result |-> <<>>]

\* session.recentlyViewed: the session id of the cookie and the limit.
RecentlyViewed(sessionId, limit) ==
    /\ \E result \in getRecentlyViewedProducts(sessionId, limit) :
          viewed' = [sessionId |-> sessionId, limit |-> limit, result |-> result]
    /\ UNCHANGED notViewedVars

IdleViewed == viewed = NoViewed

\* ========================================================================
\* semanticSearch: the local ranker
\* ========================================================================

\* str.includes(term)
Includes(str, term) ==
    \E i \in 0..(Len(str) - Len(term)) : SubSeq(str, i + 1, i + Len(term)) = term

\* str.split(" "): the pieces between single spaces.  The pieces longer than
\* 2 characters are those of split(/\s+/).
RECURSIVE SplitSpaces(_)
SplitSpaces(str) ==
    IF str = <<>> THEN << <<>> >>
    ELSE LET rest == SplitSpaces(Tail(str))
         IN  IF Head(str) = " " THEN << <<>> >> \o rest
             ELSE << <<Head(str)>> \o Head(rest) >> \o Tail(rest)

\* query.toLowerCase().split(/\s+/).filter(t => t.length > 2)
QueryTerms(query) ==
    LET long(t) == Len(t) > 2 IN SelectSeq(SplitSpaces(toLowerCase(query)), long)

\* extractMatchedTerms(query, productText)
extractMatchedTerms(query, productText) ==
    LET occurs(term) == Includes(toLowerCase(productText), term)
    IN  SelectSeq(QueryTerms(query), occurs)

\* `${product.title} ${product.description || ""} ${product.category || ""}`
ProductText(product) ==
    product.title \o <<" ">> \o product.description \o <<" ">> \o product.category

\* Number(product.price) || 0, in pence
PriceNumber(product) == IF product.price = NullNum THEN 0 ELSE product.price

\* One pound, in pence: the 1 of Math.max(...prices, 1).
OnePound == 100

SetMin(S) == CHOOSE x \in S : \A y \in S : x <= y
SetMax(S) == CHOOSE x \in S : \A y \in S : x >= y

\* normalizePriceScore(price, minPrice, maxPrice)
normalizePriceScore(price, minPrice, maxPrice) ==
    IF maxPrice = minPrice THEN Rat(1, 2)
    ELSE RatSub(Rat(1, 1), Rat(price - minPrice, maxPrice - minPrice))

\* normalizeRatingScore(product.rating ? Number(product.rating) : null), the
\* rating in hundredths
normalizeRatingScore(rating) ==
    IF rating = NullNum THEN Rat(1, 2) ELSE Rat(rating, 500)

\* normalizeStockScore(availability, quantity)
normalizeStockScore(availability, quantity) ==
    IF availability = "out_of_stock" THEN Rat(0, 1)
    ELSE IF availability = "low_stock" THEN Rat(1, 2)
    ELSE IF availability = "in_stock"
    THEN RatMin(Rat(1, 1), RatAdd(Rat(7, 10), Rat(3 * quantity, 5000)))
    ELSE Rat(1, 2)

\* normalizeRecencyScore(createdAt), the age in days
normalizeRecencyScore(createdAt) ==
    LET daysSinceCreation == now - createdAt
    IN  IF daysSinceCreation <= 30 THEN Rat(1, 1)
        ELSE IF daysSinceCreation >= 365 THEN Rat(1, 10)
        ELSE RatSub(Rat(1, 1), RatMul(Rat(daysSinceCreation - 30, 335), Rat(9, 10)))

\* generateExplanation: the parts pushed, without the figures printed in them;
\* no part gives "Relevant to your search".
generateExplanation(product, scores, matchedTerms) ==
    LET parts ==
            (IF RatLess(Rat(1, 2), scores.semantic) THEN <<"High semantic match">>
             ELSE IF RatLess(Rat(3, 10), scores.semantic)
             THEN <<"Moderate semantic match">> ELSE <<>>)
            \o (IF Len(matchedTerms) > 0 THEN <<"Matches">> ELSE <<>>)
            \o (IF product.rating # NullNum /\ product.rating >= 400
                THEN <<"Highly rated">> ELSE <<>>)
            \o (IF RatLess(Rat(7, 10), scores.price) THEN <<"Great value">> ELSE <<>>)
            \o (IF product.availability = "in_stock" THEN <<"In stock">> ELSE <<>>)
    IN  IF Len(parts) > 0 THEN parts ELSE <<"Relevant to your search">>

\* Absent optional inputs: category, minPrice, maxPrice.
NoCategory == <<>>
NoPrice == -1

\* The score of one product in semanticSearch.
ScoreProduct(query, queryEmbedding, weights, product, embeddingRows,
             minPriceInSet, maxPriceInSet) ==
    LET fallbackProductEmbedding == generateEmbedding(ProductText(product))
        embedding == IF embeddingRows = {} THEN fallbackProductEmbedding
                     ELSE (CHOOSE row \in embeddingRows : TRUE).embedding
        semanticScore == cosineSimilarity(queryEmbedding, embedding)
        ratingScore == normalizeRatingScore(product.rating)
        priceScore == normalizePriceScore(PriceNumber(product), minPriceInSet,
                                          maxPriceInSet)
        stockScore == normalizeStockScore(product.availability, product.stockQuantity)
        recencyScore == normalizeRecencyScore(product.createdAt)
        matchedTerms == extractMatchedTerms(query, ProductText(product))
        queryTerms == QueryTerms(query)
        keywordBoost == IF Len(queryTerms) > 0
                        THEN RatMul(Rat(Len(matchedTerms), Len(queryTerms)), Rat(1, 2))
                        ELSE Rat(0, 1)
        weight(f) == Rat(weights[f], 1000)
        finalScore ==
            RatSum(<<RatMul(weight("alpha"),
                            RatMax(Rat(0, 1), RatAdd(semanticScore, keywordBoost))),
                     RatMul(weight("beta"), ratingScore),
                     RatMul(weight("gamma"), priceScore),
                     RatMul(weight("delta"), stockScore),
                     RatMul(weight("epsilon"), recencyScore)>>)
    IN  [productId |-> product.id,
         scores |-> [final |-> finalScore,
                     semantic |-> RatMax(Rat(0, 1), semanticScore),
                     rating |-> ratingScore, price |-> priceScore,
                     stock |-> stockScore, recency |-> recencyScore],
         matchedTerms |-> matchedTerms,
         explanation |-> <<>>,
         position |-> 0]

\* results.sort((a, b) => b.scores.final - a.scores.final): stable.
SortByFinal(seq) ==
    LET o == CHOOSE q \in IndexOrders(Len(seq)) :
                 \A i, j \in 1..Len(seq) :
                     i < j => \/ RatLess(seq[q[j]].scores.final, seq[q[i]].scores.final)
                              \/ /\ seq[q[j]].scores.final = seq[q[i]].scores.final
                                 /\ q[i] < q[j]
    IN  [i \in 1..Len(seq) |-> seq[o[i]]]

\* The result list of semanticSearch(query, options) for the candidate rows in
\* the order the repository returned them and the weights row it returned.
RankCandidates(input, candidates, weights) ==
    LET queryEmbedding == generateEmbedding(input.query)
        prices == {PriceNumber(candidates[i]) : i \in DOMAIN candidates} \ {0}
        minPriceInSet == SetMin(prices \cup {0})
        maxPriceInSet == SetMax(prices \cup {OnePound})
        scored == [i \in DOMAIN candidates |->
                      ScoreProduct(input.query, queryEmbedding, weights, candidates[i],
                                   getEmbeddingByProductId(candidates[i].id),
                                   minPriceInSet, maxPriceInSet)]
        productOf(r) == getProductById(r.productId)
        passes(r) ==
            /\ input.category # NoCategory =>
                   /\ productOf(r).category # <<>>
                   /\ toLowerCase(productOf(r).category) = toLowerCase(input.category)
            /\ input.minPrice # NoPrice => PriceNumber(productOf(r)) >= input.minPrice
            /\ input.maxPrice # NoPrice => PriceNumber(productOf(r)) <= input.maxPrice
            /\ input.inStockOnly => productOf(r).availability # "out_of_stock"
            /\ ~RatLess(r.scores.final, input.minScore)
        top == Slice(SortByFinal(SelectSeq(scored, passes)), input.limit)
    IN  [i \in DOMAIN top |->
            [top[i] EXCEPT !.position = i,
                           !.explanation = generateExplanation(productOf(top[i]),
                                               top[i].scores, top[i].matchedTerms)]]

\* The weights row a search reads: the active row, or the built-in default
\* without a database.
SearchWeights == IF db = "null" THEN {FallbackWeightsRow} ELSE ActiveRows

\* getAllProductsWithOptionalEmbeddings(5000, 0): the products, most recent
\* first, each with its embedding when it has one (RankCandidates looks the
\* embedding row up by product id); rows of one timestamp come in any order.
getAllProductsWithOptionalEmbeddings ==
    IF db = "null" THEN {<<>>}
    ELSE {[i \in DOMAIN products |-> products[o[i]]] : o \in RowOrders(products)}

\* semanticSearch up to its writes: the result lists it can compute.
semanticSearch(input) ==
    {RankCandidates(input, candidates, weights) :
        candidates \in getAllProductsWithOptionalEmbeddings, weights \in SearchWeights}

\* keyword.trim()
RECURSIVE TrimStart(_)
TrimStart(str) ==
    IF str # <<>> /\ Head(str) = " " THEN TrimStart(Tail(str)) ELSE str

RECURSIVE TrimEnd(_)
TrimEnd(str) ==
    IF str # <<>> /\ str[Len(str)] = " " THEN TrimEnd(SubSeq(str, 1, Len(str) - 1))
    ELSE str

\* searchProductsByKeyword(keyword, limit): title, description or category
\* ILIKE %keyword%, at most limit rows in any order.
searchProductsByKeyword(keyword, limit) ==
    IF db = "null" THEN {<<>>}
    ELSE LET term == toLowerCase(TrimEnd(TrimStart(keyword)))
             hit(row) == \/ Includes(toLowerCase(row.title), term)
                         \/ Includes(toLowerCase(row.description), term)
                         \/ Includes(toLowerCase(row.category), term)
             rows == SelectSeq(products, hit)
         IN  {Slice([i \in 1..Len(rows) |-> rows[o[i]]], limit) :
                 o \in IndexOrders(Len(rows))}

\* The keyword fallback of search.semantic: filter and fixed scores.
KeywordResults(input, keywordProducts) ==
    LET keep(product) ==
            /\ input.category # NoCategory =>
                   /\ product.category # <<>>
                   /\ toLowerCase(product.category) = toLowerCase(input.category)
            /\ input.minPrice # NoPrice => PriceNumber(product) >= input.minPrice
            /\ input.maxPrice # NoPrice => PriceNumber(product) <= input.maxPrice
            /\ input.inStockOnly => product.availability # "out_of_stock"
        filtered == SelectSeq(keywordProducts, keep)
    IN  [i \in DOMAIN filtered |->
            [productId |-> filtered[i].id,
             scores |-> [final |-> Rat(1, 2), semantic |-> Rat(0, 1),
                         rating |-> IF filtered[i].rating # NullNum
                                    THEN Rat(filtered[i].rating, 500) ELSE Rat(1, 2),
                         price |-> Rat(1, 2),
                         stock |-> IF filtered[i].availability = "out_of_stock"
                                   THEN Rat(0, 1) ELSE Rat(1, 1),
                         recency |-> Rat(1, 2)],
             matchedTerms |-> <<>>,
             explanation |-> <<"Keyword match fallback">>,
             position |-> i]]

\* ========================================================================
\* search_logs, search_result_explanations and search.semantic
\* ========================================================================

NoSearchInput ==
    [query |-> <<>>, limit |-> 0, minScore |-> Rat(0, 1), category |-> NoCategory,
     minPrice |-> NoPrice, maxPrice |-> NoPrice, inStockOnly |-> FALSE,
     useAIService |-> FALSE]

NoResponse ==
    [status |-> "none", results |-> <<>>, searchLogId |-> 0,
     aiServiceUsed |-> "absent", fallbackUsed |-> "absent"]

\* The handler has thrown: the request ends with an error.
ErrorResponse == [NoResponse EXCEPT !.status = "error"]

\* The inputs of search.semantic after zod's defaults.
SearchInputs(queries, limits, minScores, inStock, useAI) ==
    [query : queries, limit : limits, minScore : minScores, category : {NoCategory},
     minPrice : {NoPrice}, maxPrice : {NoPrice}, inStockOnly : inStock,
     useAIService : useAI]

\* logSearch: insert ... returning id; the row inserted.
SearchLogRow(id, log) ==
    [id |-> id, sessionId |-> log.sessionId, query |-> log.query,
     resultsCount |-> log.resultsCount, createdAt |-> now]

\* The rows saveSearchExplanations inserts for a result list: position is
\* i + 1 on the AI path and r.position on the local path, which are equal.
ExplanationRows(searchLogId, results) ==
    [i \in DOMAIN results |->
        [searchLogId |-> searchLogId, productId |-> results[i].productId,
         position |-> i]]

\* The handler ends: its locals are gone.
SearchEnds(response) ==
    /\ searchResponse' = response
    /\ srPc' = "idle"
    /\ srInput' = NoSearchInput
    /\ srResults' = <<>>
    /\ srLogId' = 0

\* The request arrives.  aiServiceAvailable = input.useAIService ?
\* await checkAIServiceHealth() : false.
SearchStart(input, healthy) ==
    /\ srPc = "idle"
    /\ nSearches < MaxSearches
    /\ healthy => input.useAIService
    /\ nSearches' = nSearches + 1
    /\ srInput' = input
    /\ srLogged' = 0
    /\ searchResponse' = NoResponse
    /\ srPc' = IF input.useAIService /\ healthy THEN "ai" ELSE "local"
    /\ UNCHANGED <<notSearchVars, searchLogs, searchResultExplanations, srResults,
                   srLogId>>

\* What the AI service can answer for the products sent: up to limit results
\* over distinct products, each with a final score; semanticSearchViaAI turns
\* an error of the service into an empty list.
AIScores == {Rat(9, 10), Rat(1, 20)}

AIResults(sent, limit) ==
    UNION {{r \in [1..n -> [productId : {sent[i].id : i \in DOMAIN sent},
                            score : AIScores]] :
               \A i, j \in 1..n : i # j => r[i].productId # r[j].productId} :
           n \in 0..SetMin({limit, Len(sent), MaxAIResults})}

\* The try block up to the result list: getAllProducts, the weights,
\* semanticSearchViaAI, the stock and minimum-score filters.
SearchViaAI ==
    /\ srPc = "ai"
    /\ \E aiResult \in AIResults(IF db = "null" THEN <<>> ELSE products, srInput.limit) :
          LET stocked(r) == getProductById(r.productId).availability
                                \in {"in_stock", "low_stock"}
              scored(r) == ~RatLess(r.score, srInput.minScore)
              inStock == IF srInput.inStockOnly THEN SelectSeq(aiResult, stocked)
                         ELSE aiResult
              results == SelectSeq(inStock, scored)
          IN  IF Len(results) > 0
              THEN /\ srResults' = results
                   /\ srPc' = "aiLog"
              ELSE /\ srResults' = <<>>
                   /\ srPc' = "local"
    /\ UNCHANGED <<notSearchVars, searchLogs, searchResultExplanations, srInput,
                   srLogId, srLogged, searchResponse, nSearches>>

\* const searchLogId = await logSearch({...resultsCount: transformedResults.length});
\* when it throws the catch block falls through to the local search; without
\* a database it returns 0 and the response is returned without explanations.
SearchAILog(ok) ==
    /\ srPc = "aiLog"
    /\ ok \/ db = "handle"
    /\ IF ~ok
       THEN /\ srPc' = "local"
            /\ srResults' = <<>>
            /\ UNCHANGED <<searchLogs, srLogId, srLogged, searchResponse, srInput>>
       ELSE IF db = "null"
       THEN /\ SearchEnds([NoResponse EXCEPT !.status = "ok", !.results = srResults])
            /\ UNCHANGED <<searchLogs, srLogged>>
       ELSE /\ searchLogs' = Append(searchLogs,
                   SearchLogRow(Len(searchLogs) + 1,
                                [sessionId |-> "s1", query |-> srInput.query,
                                 resultsCount |-> Len(srResults)]))
            /\ srLogId' = Len(searchLogs) + 1
            /\ srLogged' = srLogged + 1
            /\ srPc' = "aiExplain"
            /\ UNCHANGED <<srResults, searchResponse, srInput>>
    /\ UNCHANGED <<notSearchVars, searchResultExplanations, nSearches>>

\* await saveSearchExplanations(explanations); return {results, searchLogId, ...};
\* when the insert throws the catch block falls through to the local search.
SearchAIExplain(ok) ==
    /\ srPc = "aiExplain"
    /\ IF ok
       THEN /\ searchResultExplanations' =
                   searchResultExplanations \o ExplanationRows(srLogId, srResults)
            /\ SearchEnds([NoResponse EXCEPT !.status = "ok", !.results = srResults,
                                             !.searchLogId = srLogId])
       ELSE /\ srPc' = "local"
            /\ srResults' = <<>>
            /\ srLogId' = 0
            /\ UNCHANGED <<searchResultExplanations, searchResponse, srInput>>
    /\ UNCHANGED <<notSearchVars, searchLogs, srLogged, nSearches>>

\* const result = await semanticSearch(input.query, {...}), up to its writes.
SearchLocal ==
    /\ srPc = "local"
    /\ \E results \in semanticSearch(srInput) : srResults' = results
    /\ srPc' = "localLog"
    /\ UNCHANGED <<notSearchVars, searchLogs, searchResultExplanations, srInput,
                   srLogId, srLogged, searchResponse, nSearches>>

\* semanticSearch: const searchLogId = await logSearch({...}); an exception
\* ends the request.
SearchLocalLog(ok) ==
    /\ srPc = "localLog"
    /\ ok \/ db = "handle"
    /\ IF ~ok
       THEN /\ SearchEnds(ErrorResponse)
            /\ UNCHANGED <<searchLogs, srLogged>>
       ELSE IF db = "null"
       THEN /\ srLogId' = 0
            /\ srPc' = "return"
            /\ UNCHANGED <<searchLogs, srLogged, srResults, searchResponse, srInput>>
       ELSE /\ searchLogs' = Append(searchLogs,
                   SearchLogRow(Len(searchLogs) + 1,
                                [sessionId |-> "s1", query |-> srInput.query,
                                 resultsCount |-> Len(srResults)]))
            /\ srLogId' = Len(searchLogs) + 1
            /\ srLogged' = srLogged + 1
            /\ srPc' = IF Len(srResults) > 0 THEN "localExplain" ELSE "return"
            /\ UNCHANGED <<srResults, searchResponse, srInput>>
    /\ UNCHANGED <<notSearchVars, searchResultExplanations, nSearches>>

\* semanticSearch: if (searchLogId && results.length > 0)
\*     await saveSearchExplanations(...); an exception ends the request.
SearchLocalExplain(ok) ==
    /\ srPc = "localExplain"
    /\ IF ok
       THEN /\ searchResultExplanations' =
                   searchResultExplanations \o ExplanationRows(srLogId, srResults)
            /\ srPc' = "return"
            /\ UNCHANGED <<srInput, srResults, srLogId, searchResponse>>
       ELSE /\ SearchEnds(ErrorResponse)
            /\ UNCHANGED searchResultExplanations
    /\ UNCHANGED <<notSearchVars, searchLogs, srLogged, nSearches>>

\* The router's answer without its aiServiceUsed field.
SearchReturnUnmarked ==
    /\ srPc = "return"
    /\ IF Len(srResults) = 0
       THEN \E keywordProducts \in searchProductsByKeyword(srInput.query, srInput.limit) :
               SearchEnds([status |-> "ok",
                           results |-> KeywordResults(srInput, keywordProducts),
                           searchLogId |-> srLogId, aiServiceUsed |-> "absent",
                           fallbackUsed |-> "keyword"])
       ELSE SearchEnds([status |-> "ok", results |-> srResults,
                        searchLogId |-> srLogId, aiServiceUsed |-> "absent",
                        fallbackUsed |-> "absent"])
    /\ UNCHANGED <<notSearchVars, searchLogs, searchResultExplanations, srLogged,
                   nSearches>>

\* Back in the router: the keyword fallback when the ranker returned nothing,
\* else the ranked results.
SearchReturn ==
    /\ srPc = "return"
    /\ IF Len(srResults) = 0
       THEN \E keywordProducts \in searchProductsByKeyword(srInput.query, srInput.limit) :
               SearchEnds([status |-> "ok",
                           results |-> KeywordResults(srInput, keywordProducts),
                           searchLogId |-> srLogId, aiServiceUsed |-> "false",
                           fallbackUsed |-> "keyword"])
       ELSE SearchEnds([status |-> "ok", results |-> srResults,
                        searchLogId |-> srLogId, aiServiceUsed |-> "false",
                        fallbackUsed |-> "absent"])
    /\ UNCHANGED <<notSearchVars, searchLogs, searchResultExplanations, srLogged,
                   nSearches>>

IdleSearch ==
    /\ searchLogs = <<>>
    /\ searchResultExplanations = <<>>
    /\ srPc = "idle"
    /\ srInput = NoSearchInput
    /\ srResults = <<>>
    /\ srLogId = 0
    /\ srLogged = 0
    /\ searchResponse = NoResponse
    /\ nSearches = 0

\* ========================================================================
\* Functions applied to drawn inputs
\* ========================================================================

\* tokens.join(" ")
RECURSIVE JoinSpaces(_)
JoinSpaces(tokens) ==
    IF tokens = <<>> THEN <<>>
    ELSE IF Len(tokens) = 1 THEN tokens[1]
    ELSE tokens[1] \o <<" ">> \o JoinSpaces(Tail(tokens))

NoMatched == [query |-> <<>>, productText |-> <<>>, result |-> <<>>, called |-> FALSE]

\* const matchedTerms = extractMatchedTerms(query, productText);
ExtractMatchedTerms ==
    /\ ~matched.called
    /\ matched' = [matched EXCEPT
                      !.result = extractMatchedTerms(matched.query, matched.productText),
                      !.called = TRUE]
    /\ UNCHANGED notMatchedVars

IdleMatched == matched = NoMatched

\* ------------------------------------------------------------ IR metrics

\* 1 / Math.log2(i + 2) for i = 0, 1, 2, ..., in millionths.
InverseLog2 == <<1000000, 630930, 500000, 430677, 386853, 356207>>

\* Math.pow(2, rel) - 1
Gain(rel) == 2 ^ rel - 1

\* calculateDCG(relevanceScores, k), in millionths.
calculateDCG(relevanceScores, k) ==
    LET limit == IF k < Len(relevanceScores) THEN k ELSE Len(relevanceScores)
    IN  SumSeq([i \in 1..limit |-> Gain(relevanceScores[i]) * InverseLog2[i]])

\* [...relevanceScores].sort((a, b) => b - a)
RECURSIVE SortDescending(_)
SortDescending(scores) ==
    IF scores = <<>> THEN <<>>
    ELSE LET i == CHOOSE j \in DOMAIN scores : \A h \in DOMAIN scores : scores[j] >= scores[h]
         IN  <<scores[i]>> \o
             SortDescending([h \in 1..(Len(scores) - 1) |->
                                IF h < i THEN scores[h] ELSE scores[h + 1]])

calculateIDCG(relevanceScores, k) == calculateDCG(SortDescending(relevanceScores), k)

\* relevanceMap.get(productId) || 0: the map holds the last judgment of a
\* product.
RelevanceOf(judgments, productId) ==
    LET at == {i \in DOMAIN judgments : judgments[i].productId = productId}
    IN  IF at = {} THEN 0 ELSE judgments[SetMax(at)].relevanceScore

calculateNDCG(results, judgments, k) ==
    LET resultRelevances ==
            [i \in DOMAIN Slice(results, k) |-> RelevanceOf(judgments, results[i].productId)]
        allRelevances == [i \in DOMAIN judgments |-> judgments[i].relevanceScore]
        dcg == calculateDCG(resultRelevances, k)
        idcg == calculateIDCG(allRelevances, k)
    IN  IF idcg = 0 THEN Rat(0, 1) ELSE Rat(dcg, idcg)

\* new Set(judgments.filter(j => j.relevanceScore >= relevanceThreshold)
\*                  .map(j => j.productId))
RelevantItems(judgments, relevanceThreshold) ==
    {judgments[i].productId :
        i \in {j \in DOMAIN judgments : judgments[j].relevanceScore >= relevanceThreshold}}

\* results.filter(r => relevantItems.has(r.productId))
RetrievedRelevant(results, relevantItems) ==
    LET has(r) == r.productId \in relevantItems IN SelectSeq(results, has)

calculateRecall(results, judgments, k, relevanceThreshold) ==
    LET relevantItems == RelevantItems(judgments, relevanceThreshold)
        topKResults == Slice(results, k)
        retrievedRelevant == Len(RetrievedRelevant(topKResults, relevantItems))
    IN  IF Cardinality(relevantItems) = 0 THEN Rat(0, 1)
        ELSE Rat(retrievedRelevant, Cardinality(relevantItems))

calculatePrecisionAtK(results, judgments, k, relevanceThreshold) ==
    LET relevantItems == RelevantItems(judgments, relevanceThreshold)
        topKResults == Slice(results, k)
        retrievedRelevant == Len(RetrievedRelevant(topKResults, relevantItems))
    IN  IF Len(topKResults) = 0 THEN Rat(0, 1)
        ELSE Rat(retrievedRelevant, k)

calculatePrecision(results, judgments, k, relevanceThreshold) ==
    LET relevantItems == RelevantItems(judgments, relevanceThreshold)
        topKResults == Slice(results, k)
        actualK == IF k < Len(topKResults) THEN k ELSE Len(topKResults)
        retrievedRelevant == Len(RetrievedRelevant(topKResults, relevantItems))
    IN  IF actualK = 0 THEN Rat(0, 1)
        ELSE Rat(retrievedRelevant, actualK)

calculateMRR(results, judgments, relevanceThreshold) ==
    LET relevantItems == RelevantItems(judgments, relevanceThreshold)
        at == {i \in DOMAIN results : results[i].productId \in relevantItems}
    IN  IF at = {} THEN Rat(0, 1) ELSE Rat(1, SetMin(at))

calculateAveragePrecision(results, judgments, relevanceThreshold) ==
    LET relevantItems == RelevantItems(judgments, relevanceThreshold)
        \* relevantCount after the step at position i
        relevantCount(i) ==
            Cardinality({j \in 1..i : results[j].productId \in relevantItems})
        sumPrecision ==
            RatSum([i \in DOMAIN results |->
                       IF results[i].productId \in relevantItems
                       THEN Rat(relevantCount(i), i)
                       ELSE Rat(0, 1)])
    IN  IF Cardinality(relevantItems) = 0 THEN Rat(0, 1)
        ELSE RatMul(sumPrecision, Rat(1, Cardinality(relevantItems)))

\* The defaults of the parameters.
DefaultThreshold == 1

calculateAllMetrics(results, judgments, k) ==
    [ndcg |-> calculateNDCG(results, judgments, k),
     recall |-> calculateRecall(results, judgments, k, DefaultThreshold),
     precision |-> calculatePrecision(results, judgments, k, DefaultThreshold),
     mrr |-> calculateMRR(results, judgments, DefaultThreshold),
     averagePrecision |-> calculateAveragePrecision(results, judgments, DefaultThreshold)]

NoMetrics == [ndcg |-> Rat(0, 1), recall |-> Rat(0, 1), precision |-> Rat(0, 1),
              mrr |-> Rat(0, 1), averagePrecision |-> Rat(0, 1)]

NoEvaluation == [results |-> <<>>, judgments |-> <<>>, k |-> 1,
                 result |-> NoMetrics, called |-> FALSE]

\* const m = calculateAllMetrics(results, judgments, k);
CalculateAllMetrics ==
    /\ ~metrics.called
    /\ metrics' = [metrics EXCEPT
                      !.result = calculateAllMetrics(metrics.results, metrics.judgments,
                                                     metrics.k),
                      !.called = TRUE]
    /\ UNCHANGED notMetricsVars

IdleMetrics == metrics = NoEvaluation

\* How the relevance score follows from the counts: the if / else if chain.
\* matchRatio = matchCount / queryTerms.length is compared as a fraction.
RelevanceByAnd(matchCount, numTerms, exactTitleMatch) ==
    IF numTerms = 0 THEN 0
    ELSE IF 10 * matchCount >= 8 * numTerms /\ exactTitleMatch THEN 3
    ELSE IF 2 * matchCount >= numTerms /\ exactTitleMatch THEN 2
    ELSE IF matchCount > 0 THEN 1
    ELSE 0

Relevance(matchCount, numTerms, exactTitleMatch) ==
    IF numTerms = 0 THEN 0
    ELSE IF 10 * matchCount >= 8 * numTerms /\ exactTitleMatch THEN 3
    ELSE IF 2 * matchCount >= numTerms \/ exactTitleMatch THEN 2
    ELSE IF matchCount > 0 THEN 1
    ELSE 0

\* generateAutoRelevanceJudgments(query, products)
generateAutoRelevanceJudgments(query, productList) ==
    LET queryTerms == QueryTerms(query)
        judgment(product) ==
            LET productText == toLowerCase(ProductText(product))
                inText(term) == Includes(productText, term)
                inTitle(term) == Includes(toLowerCase(product.title), term)
                matchCount == Len(SelectSeq(queryTerms, inText))
                exactTitleMatch == Len(SelectSeq(queryTerms, inTitle)) > 0
            IN  [productId |-> product.id,
                 relevanceScore |-> Relevance(matchCount, Len(queryTerms), exactTitleMatch)]
    IN  [i \in DOMAIN productList |-> judgment(productList[i])]

NoJudged == [query |-> <<>>, products |-> <<>>, results |-> <<>>]

MaxCalls == 2

\* const judgments = generateAutoRelevanceJudgments(query, allProducts);
GenerateAutoRelevanceJudgments ==
    /\ Len(judged.results) < MaxCalls
    /\ judged' = [judged EXCEPT
                     !.results = Append(@, generateAutoRelevanceJudgments(judged.query,
                                                                          judged.products))]
    /\ UNCHANGED notJudgedVars

IdleJudged == judged = NoJudged

\* ------------------------------------------------------------------ getDb

MaxGetDbCalls == 8

\* The module state of db.ts before the first call: let _db = null; let
\* _legacyProductColumnsBackfilled = false.  url: process.env.DATABASE_URL is
\* set.  pc: where each caller is inside getDb; ret: what its last call
\* returned; executed: the backfill statements the database has completed.
NoConn == [url |-> FALSE, db |-> "null", backfilled |-> FALSE,
           pc |-> [c \in Callers |-> "idle"], ret |-> [c \in Callers |-> "none"],
           executed |-> 0, calls |-> 0]

\* getDb up to its first await: if (!_db && process.env.DATABASE_URL)
\* { try { _db = drizzle(url) (connects, or throws into the catch block that
\* sets _db = null); await backfillLegacyProductColumns(_db) ... } }
\* return _db.
GetDbCall(c, connects) ==
    /\ conn.pc[c] = "idle"
    /\ conn.calls < MaxGetDbCalls
    /\ IF conn.db = "null" /\ conn.url
       THEN IF connects
            THEN conn' = [conn EXCEPT !.db = "handle", !.pc[c] = "backfill",
                                      !.ret[c] = "none", !.calls = @ + 1]
            ELSE conn' = [conn EXCEPT !.db = "null", !.ret[c] = "null",
                                      !.calls = @ + 1]
       ELSE conn' = [conn EXCEPT !.ret[c] = conn.db, !.calls = @ + 1]
    /\ UNCHANGED notConnVars

\* backfillLegacyProductColumns after its await and the rest of getDb:
\* if (_legacyProductColumnsBackfilled) return; await db.execute(...);
\* _legacyProductColumnsBackfilled = true; and, when execute throws,
\* catch { _db = null }; then return _db.
GetDbBackfill(c, ok) ==
    /\ conn.pc[c] = "backfill"
    /\ IF conn.backfilled
       THEN conn' = [conn EXCEPT !.pc[c] = "idle", !.ret[c] = conn.db]
       ELSE IF ok
       THEN conn' = [conn EXCEPT !.backfilled = TRUE, !.executed = @ + 1,
                                 !.pc[c] = "idle", !.ret[c] = conn.db]
       ELSE conn' = [conn EXCEPT !.db = "null", !.pc[c] = "idle", !.ret[c] = "null"]
    /\ UNCHANGED notConnVars

IdleConn == conn = NoConn

\* --------------------------------------------------- batchGenerateEmbeddings

\* What batchGenerateEmbeddings leaves alone besides its own locals: all but
\* the table product_embeddings.
batchFrame == <<db, now, weightsVars, embedCalls, productVars, uploadVars, sessionVars,
                recs, similar, searchVars, viewed, matched, metrics, judged, conn>>

\* Before a call.  attempts: the generateProductEmbedding calls made, each
\* with its id, whether its writes could succeed and what it returned;
\* progress: the first arguments of the onProgress calls made.
NoBatch == [productIds |-> <<>>, onProgress |-> FALSE, pc |-> "idle", i |-> 0,
            success |-> 0, failed |-> 0, attempts |-> <<>>, progress |-> <<>>,
            result |-> NoUploadCount]

\* let success = 0; let failed = 0; for (let i = 0; ...
BatchStart ==
    /\ batch.pc = "start"
    /\ batch' = [batch EXCEPT !.pc = "loop"]
    /\ UNCHANGED <<batchFrame, productEmbeddings>>

\* A loop that gives up at the first id that fails.
BatchEmbedOneOrStop(ok) ==
    /\ batch.pc = "loop"
    /\ batch.i < Len(batch.productIds)
    /\ LET productId == batch.productIds[batch.i + 1]
           result == HasProduct(productId) /\ ok
           attempt == [productId |-> productId, ok |-> ok, result |-> result]
       IN  /\ IF result
              THEN productEmbeddings' =
                       createEmbedding(productEmbeddings,
                           [productId |-> productId,
                            embedding |->
                                generateEmbedding(textToEmbed(getProductById(productId))),
                            textUsed |-> textToEmbed(getProductById(productId))])
              ELSE UNCHANGED productEmbeddings
           /\ batch' = [batch EXCEPT
                           !.success = IF result THEN @ + 1 ELSE @,
                           !.failed = IF result THEN @ ELSE @ + 1,
                           !.attempts = Append(@, attempt),
                           !.progress = IF batch.onProgress THEN Append(@, batch.i + 1)
                                        ELSE @,
                           !.i = IF result THEN @ + 1 ELSE Len(batch.productIds)]
    /\ UNCHANGED batchFrame

\* One turn of the loop: const result = await generateProductEmbedding(id)
\* (false when the product is missing or a call inside its try block throws,
\* true after createEmbedding); success++ or failed++; onProgress(i + 1, n)
\* when given; the delay.
BatchEmbedOne(ok) ==
    /\ batch.pc = "loop"
    /\ batch.i < Len(batch.productIds)
    /\ LET productId == batch.productIds[batch.i + 1]
           result == HasProduct(productId) /\ ok
           attempt == [productId |-> productId, ok |-> ok, result |-> result]
       IN  /\ IF result
              THEN productEmbeddings' =
                       createEmbedding(productEmbeddings,
                           [productId |-> productId,
                            embedding |->
                                generateEmbedding(textToEmbed(getProductById(productId))),
                            textUsed |-> textToEmbed(getProductById(productId))])
              ELSE UNCHANGED productEmbeddings
           /\ batch' = [batch EXCEPT
                           !.success = IF result THEN @ + 1 ELSE @,
                           !.failed = IF result THEN @ ELSE @ + 1,
                           !.attempts = Append(@, attempt),
                           !.progress = IF batch.onProgress THEN Append(@, batch.i + 1)
                                        ELSE @,
                           !.i = @ + 1]
    /\ UNCHANGED batchFrame

\* return { success, failed };
BatchReturn ==
    /\ batch.pc = "loop"
    /\ batch.i = Len(batch.productIds)
    /\ batch' = [batch EXCEPT !.pc = "done",
                              !.result = [success |-> batch.success,
                                          failed |-> batch.failed]]
    /\ UNCHANGED <<batchFrame, productEmbeddings>>

IdleBatch == batch = NoBatch

IdleButViewed ==
    /\ IdleMatched
    /\ IdleMetrics
    /\ IdleJudged
    /\ IdleConn
    /\ IdleBatch

IdleButMatched ==
    /\ IdleViewed
    /\ IdleMetrics
    /\ IdleJudged
    /\ IdleConn
    /\ IdleBatch

IdleButMetrics ==
    /\ IdleViewed
    /\ IdleMatched
    /\ IdleJudged
    /\ IdleConn
    /\ IdleBatch

IdleButJudged ==
    /\ IdleViewed
    /\ IdleMatched
    /\ IdleMetrics
    /\ IdleConn
    /\ IdleBatch

IdleButConn ==
    /\ IdleViewed
    /\ IdleMatched
    /\ IdleMetrics
    /\ IdleJudged
    /\ IdleBatch

IdleButBatch ==
    /\ IdleViewed
    /\ IdleMatched
    /\ IdleMetrics
    /\ IdleJudged
    /\ IdleConn

IdleExtra ==
    /\ IdleViewed
    /\ IdleMatched
    /\ IdleMetrics
    /\ IdleJudged
    /\ IdleConn
    /\ IdleBatch

\* ========================================================================
\* Specifications
\* ========================================================================

InitWeights ==
    /\ db \in DbStates
    /\ now = 0
    /\ IdleEmbed
    /\ IdleProducts
    /\ IdleUpload
    /\ IdleSessions
    /\ IdleRecs
    /\ IdleExtra
    /\ IdleSearch
    /\ rankingWeights \in {<<>>, <<DefaultWeightsRow(1)>>}
    /\ garwPc = [c \in Callers |-> "idle"]
    /\ garwRet = [c \in Callers |-> NoRow]
    /\ garwReturned = FALSE
    /\ garwInserts = [c \in Callers |-> 0]
    /\ nUpdates = 0

NextWeights ==
    \/ \E c \in Callers : GarwCall(c)
    \/ \E c \in Callers : GarwSelect(c)
    \/ \E c \in Callers : GarwInsert(c)
    \/ \E id \in 1..(NumCallers + 1), w \in WeightUpdates : WeightsUpdate(id, w)

SpecWeights == InitWeights /\ [][NextWeights]_vars

\* ------------------------------------------------------------------ C1
\* C1: once a getActiveRankingWeights call has returned from a reachable
\* database, the table holds exactly one row with isActive = true, under
\* every interleaving of getActiveRankingWeights and weights.update calls.
C1_ExactlyOneActiveRow ==
    garwReturned => Cardinality(ActiveRows) = 1

\* ------------------------------------------------------------------ C11
\* An awaited statement of a running call completes.
SpecWeightsFair ==
    /\ SpecWeights
    /\ \A c \in Callers : WF_vars(GarwSelect(c)) /\ WF_vars(GarwInsert(c))

\* A call returns the row its select read from the table; a call that found
\* no active row and ran alone returns the default row it inserted.
C11_Step ==
    \A c \in Callers :
        (db = "handle" /\ garwPc[c] = "select" /\ garwPc'[c] = "idle") =>
            /\ garwRet'[c] \in ActiveRows
            /\ (garwInserts[c] = 1 /\ nUpdates = 0) =>
                   garwRet'[c] = DefaultWeightsRow(garwRet'[c].id)
            /\ (garwInserts[c] = 1 /\ Len(rankingWeights) = 1) =>
                   garwRet'[c] = rankingWeights[1]

\* C11: a getActiveRankingWeights call that finds no active row inserts the
\* default row exactly once, the re-read returns it, and the call ends: no
\* second insertion, no unbounded recursion.
C11_OneInsertionThenReturn ==
    /\ [](\A c \in Callers : garwInserts[c] <= 1)
    /\ [][C11_Step]_vars
    /\ \A c \in Callers : (garwPc[c] # "idle") ~> (garwPc[c] = "idle")

C11_Witness ==
    \E c \in Callers :
        /\ garwPc[c] = "idle"
        /\ garwInserts[c] = 1
        /\ garwRet[c] = DefaultWeightsRow(1)
        /\ rankingWeights = <<DefaultWeightsRow(1)>>

\* ------------------------------------------------------------------ C10
\* C10: every stored weight of every ranking_weights row is >= 0.
C10_WeightsNonNegative ==
    \A r \in Range(rankingWeights) : \A f \in WeightFields : r[f] >= 0

InitEmbed ==
    /\ db \in DbStates
    /\ now = 0
    /\ IdleWeights
    /\ IdleEmbed
    /\ IdleProducts
    /\ IdleUpload
    /\ IdleSessions
    /\ IdleRecs
    /\ IdleExtra
    /\ IdleSearch

NextEmbed ==
    \/ \E e \in EmbeddingInputs(ProductIds, {<<4, 3>>, <<3, 4>>}, Texts) :
           CreateEmbedding(e)
    \/ Tick

SpecEmbed == InitEmbed /\ [][NextEmbed]_vars

\* ------------------------------------------------------------------ C9
\* The last createEmbedding call made for product p (0: none).
LastEmbedCall(p) ==
    LET S == {i \in DOMAIN embedCalls : embedCalls[i].productId = p}
    IN  IF S = {} THEN 0 ELSE CHOOSE i \in S : \A j \in S : j <= i

C9_OneRowLatestVector ==
    db = "handle" =>
        \A p \in ProductIds :
            /\ Cardinality(EmbeddingRowsOf(productEmbeddings, p)) <= 1
            /\ LastEmbedCall(p) # 0 =>
                   /\ getEmbeddingByProductId(p) # {}
                   /\ \A r \in getEmbeddingByProductId(p) :
                          r.embedding = embedCalls[LastEmbedCall(p)].embedding

StoredVectors(table) == {<<table[i].productId, table[i].embedding>> : i \in DOMAIN table}

C9_RepeatIsNoOp ==
    (/\ embedCalls # <<>>
     /\ embedCalls' = Append(embedCalls, embedCalls[Len(embedCalls)]))
        => /\ StoredVectors(productEmbeddings') = StoredVectors(productEmbeddings)
           /\ Len(productEmbeddings') = Len(productEmbeddings)

\* C9: after any sequence of createEmbedding calls there is at most one row
\* per product id, getEmbeddingByProductId(p) returns the vector of the most
\* recent createEmbedding for p, and repeating a call with the same arguments
\* leaves the stored vectors and the number of rows unchanged.
C9_UpsertLookup == [](C9_OneRowLatestVector) /\ [][C9_RepeatIsNoOp]_vars

\* A product embedded twice with different vectors, then the last call
\* repeated: one row, holding the second vector.
C9_Witness ==
    /\ db = "handle"
    /\ Len(embedCalls) = 3
    /\ embedCalls[1].productId = embedCalls[2].productId
    /\ embedCalls[1].embedding # embedCalls[2].embedding
    /\ embedCalls[3] = embedCalls[2]
    /\ Len(productEmbeddings) = 1

InitUpload ==
    /\ db \in DbStates
    /\ now = 0
    /\ IdleWeights
    /\ IdleEmbed
    /\ IdleProducts
    /\ IdleUpload
    /\ IdleSessions
    /\ IdleRecs
    /\ IdleExtra
    /\ IdleSearch

NextUpload ==
    \/ \E input \in UploadInputs, ok \in BOOLEAN : UploadCreateJob(input, ok)
    \/ \E ok \in BOOLEAN : UploadCreateProducts(ok)
    \/ \E ok \in BOOLEAN : UploadMarkProcessed(ok)
    \/ \E ok \in BOOLEAN : UploadListProducts(ok)
    \/ \E ok \in BOOLEAN : UploadEmbedOne(ok)
    \/ \E ok \in BOOLEAN : UploadMarkCompleted(ok)
    \/ \E ok \in BOOLEAN : UploadMarkCompletedAt(ok)
    \/ \E ok \in BOOLEAN : UploadCatch(ok)
    \/ \E id \in ProductIds :
           ProductsDelete(id)

SpecUpload == InitUpload /\ [][NextUpload]_vars

\* ------------------------------------------------------------------ C5
UploadStatusRank(status) ==
    CASE status = "pending" -> 0
      [] status = "processing" -> 1
      [] status = "embedding" -> 2
      [] status = "completed" -> 3
      [] status = "failed" -> 3

C5_Step ==
    \A i \in DOMAIN catalogUploadJobs :
        LET old == catalogUploadJobs[i].status
            new == catalogUploadJobs'[i].status
        IN  /\ old \in {"completed", "failed"} => new = old
            /\ new # old =>
                  \/ new = "failed"
                  \/ UploadStatusRank(new) > UploadStatusRank(old)

\* C5: the status of an upload job only moves forward along processing ->
\* embedding -> completed, or to failed, and a job that is completed or
\* failed never changes status again.
C5_StatusMonotonic == [][C5_Step]_vars

InitSession ==
    /\ db \in DbStates
    /\ now = 0
    /\ IdleWeights
    /\ IdleEmbed
    /\ IdleProducts
    /\ IdleUpload
    /\ IdleSessions
    /\ IdleRecs
    /\ IdleExtra
    /\ IdleSearch

\* Requests of two browsers (two session cookies), in any interleaving.
NextSession ==
    \/ \E r \in Requests,
          input \in InteractionInputs({"s1", "s2"}, {1}, {"view", "purchase"}) :
           RiGetSession(r, input)
    \/ \E r \in Requests : RiCreateSession(r)
    \/ \E r \in Requests : RiUpdateSessionActivity(r)
    \/ \E r \in Requests : RiRecordInteraction(r)
    \/ Tick

SpecSession == InitSession /\ [][NextSession]_vars

\* ------------------------------------------------------------------ C2
\* C2: under any interleaving of recordInteraction requests of one session id,
\* every request succeeds and appends exactly one interaction row, and
\* exactly one session row exists for the id, with expiry 30 days after its
\* creation.
C2_EveryRequestSucceeds ==
    db = "handle" =>
        /\ \A r \in Requests : riResult[r] # "error"
        /\ (\A r \in Requests : riPc[r] = "idle") => Len(interactions) = nRequests
        /\ \A i \in DOMAIN interactions : HasSession(interactions[i].sessionId)
        /\ \A i \in DOMAIN sessions :
              /\ \A j \in DOMAIN sessions :
                    sessions[j].sessionId = sessions[i].sessionId => j = i
              /\ sessions[i].expiresAt = sessions[i].createdAt + SessionTtlDays

\* Products are created and deleted while interactions are recorded.
NextInteractions ==
    \/ \E r \in {1},
          input \in InteractionInputs({"s1"}, 1..(MaxProducts + 1),
                                      {"view", "purchase", "hover"}) :
           RiGetSession(r, input)
    \/ \E r \in Requests : RiCreateSession(r)
    \/ \E r \in Requests : RiUpdateSessionActivity(r)
    \/ \E r \in Requests : RiRecordInteraction(r)
    \/ \E input \in ProductInputs, embedOk \in BOOLEAN : ProductsCreate(input, embedOk)
    \/ \E id \in ProductIds : ProductsDelete(id)

SpecInteractions == InitSession /\ [][NextInteractions]_vars

\* ------------------------------------------------------------------ C8
\* C8: every stored interaction row refers to a product that exists now, and
\* its kind is one of view, click, search_click, add_to_cart, purchase.
C8_InteractionsReferToProducts ==
    \A i \in DOMAIN interactions :
        /\ HasProduct(interactions[i].productId)
        /\ interactions[i].interactionType \in InteractionTypes

\* A catalog of two products made by admin.products.create, each with or
\* without its embedding row (generateProductEmbedding succeeded or failed).
InitRecs ==
    /\ db \in DbStates
    /\ now = 0
    /\ IdleWeights
    /\ IdleUpload
    /\ IdleSessions
    /\ IdleRecs
    /\ IdleExtra
    /\ IdleSearch
    /\ embedCalls = <<>>
    /\ products = <<ProductRow(1, UsbInput), ProductRow(2, LampInput)>>
    /\ nextProductId = 3
    /\ \E embedded \in SUBSET {1, 2} :
          LET embeddingOf(id, input) ==
                  [productId |-> id,
                   embedding |-> generateEmbedding(textToEmbed(input)),
                   textUsed |-> textToEmbed(input)]
              first == IF 1 \in embedded
                       THEN createEmbedding(<<>>, embeddingOf(1, UsbInput)) ELSE <<>>
          IN  productEmbeddings =
                  IF 2 \in embedded
                  THEN createEmbedding(first, embeddingOf(2, LampInput)) ELSE first

\* A browser records interactions, time passes and recommendations are
\* requested.
NextRecs ==
    \/ \E input \in InteractionInputs({"s1"}, ProductIds, {"view", "purchase"}) :
           RiGetSession(1, input)
    \/ RiCreateSession(1)
    \/ RiUpdateSessionActivity(1)
    \/ RiRecordInteraction(1)
    \/ Tick
    \/ \E limit \in 1..2, excludeProductIds \in {<<>>, <<2>>} :
           ForSession("s1", limit, excludeProductIds)

SpecRecs == InitRecs /\ [][NextRecs]_vars

\* The products of the interaction rows stored for a session.
SessionHistory(sessionId) ==
    {interactions[i].productId :
        i \in {j \in DOMAIN interactions : interactions[j].sessionId = sessionId}}

\* ------------------------------------------------------------------ C3
C3_Step ==
    recs' # recs =>
        \A k \in DOMAIN recs'.result :
            /\ recs'.result[k].productId \notin Range(recs'.excludeProductIds)
            /\ recs'.result[k].productId \notin SessionHistory(recs'.sessionId)

\* C3: on every return path of getSessionRecommendations no returned product
\* is in excludeProductIds and none occurs in the session's interaction
\* history.
C3_NoExcludedNoInteracted == [][C3_Step]_vars

\* ------------------------------------------------------------------ C4
\* The session row of the id has expired at the time of the call.
Expired(sessionId) ==
    \E i \in DOMAIN sessions :
        sessions[i].sessionId = sessionId /\ sessions[i].expiresAt < now

C4_Step ==
    (recs' # recs /\ Expired(recs'.sessionId)) =>
        recs'.result \in getColdStartRecommendations(recs'.limit, recs'.excludeProductIds)

\* C4: for a session whose expiresAt is earlier than the time of the call,
\* getSessionRecommendations returns what it returns for a session with no
\* interactions, whatever interactions are stored for it.
C4_ExpiredSessionIgnored == [][C4_Step]_vars

\* A catalog of two products as in InitRecs and the default weights row.
InitSearch ==
    /\ db \in DbStates
    /\ now = 0
    /\ IdleUpload
    /\ IdleSessions
    /\ IdleRecs
    /\ IdleExtra
    /\ IdleSearch
    /\ embedCalls = <<>>
    /\ rankingWeights = <<DefaultWeightsRow(1)>>
    /\ garwPc = [c \in Callers |-> "idle"]
    /\ garwRet = [c \in Callers |-> NoRow]
    /\ garwReturned = FALSE
    /\ garwInserts = [c \in Callers |-> 0]
    /\ nUpdates = 0
    /\ products = <<ProductRow(1, UsbInput), ProductRow(2, LampInput)>>
    /\ nextProductId = 3
    /\ \E embedded \in SUBSET {1, 2} :
          LET embeddingOf(id, input) ==
                  [productId |-> id,
                   embedding |-> generateEmbedding(textToEmbed(input)),
                   textUsed |-> textToEmbed(input)]
              first == IF 1 \in embedded
                       THEN createEmbedding(<<>>, embeddingOf(1, UsbInput)) ELSE <<>>
          IN  productEmbeddings =
                  IF 2 \in embedded
                  THEN createEmbedding(first, embeddingOf(2, LampInput)) ELSE first

NextSearch ==
    \/ \E input \in SearchInputs({StrUsb, <<"z", "z">>}, {1, 20},
                                 {Rat(1, 10), Rat(1, 1)}, {FALSE}, BOOLEAN),
          healthy \in BOOLEAN :
           SearchStart(input, healthy)
    \/ SearchViaAI
    \/ \E ok \in BOOLEAN : SearchAILog(ok)
    \/ \E ok \in BOOLEAN : SearchAIExplain(ok)
    \/ SearchLocal
    \/ \E ok \in BOOLEAN : SearchLocalLog(ok)
    \/ \E ok \in BOOLEAN : SearchLocalExplain(ok)
    \/ SearchReturn
    \/ Tick

SpecSearch == InitSearch /\ [][NextSearch]_vars

\* ------------------------------------------------------------------ C6
\* C6: with a reachable database every search.semantic request that returns a
\* response has inserted exactly one SearchLog row, whichever path served
\* it, and no request inserts two.
C6_OneLogPerRequest ==
    db = "handle" =>
        /\ srLogged <= 1
        /\ (srPc = "idle" /\ searchResponse.status = "ok") => srLogged = 1

\* ------------------------------------------------------------------ C7
\* The explanation rows stored for a log row.
ExplanationsOf(searchLogId) ==
    {i \in DOMAIN searchResultExplanations :
        searchResultExplanations[i].searchLogId = searchLogId}

\* C7: after a request has ended, a SearchLog row of a search with at least
\* one ranked result exists together with all of its explanation rows:
\* never the log row without them.
C7_LogAndExplanationsTogether ==
    srPc = "idle" =>
        /\ \A i \in DOMAIN searchLogs :
              searchLogs[i].resultsCount > 0 =>
                  Cardinality(ExplanationsOf(searchLogs[i].id)) = searchLogs[i].resultsCount
        /\ \A j \in DOMAIN searchResultExplanations :
              \E i \in DOMAIN searchLogs :
                  searchLogs[i].id = searchResultExplanations[j].searchLogId

\* ------------------------------------------------------------------ C12
\* The local ranker over every two-product catalog of one upload: the rows
\* carry one createdAt, so the repository may return them in either order.
InitRanker ==
    /\ db = "handle"
    /\ now = 0
    /\ IdleUpload
    /\ IdleSessions
    /\ IdleRecs
    /\ IdleExtra
    /\ IdleSearch
    /\ embedCalls = <<>>
    /\ rankingWeights = <<DefaultWeightsRow(1)>>
    /\ garwPc = [c \in Callers |-> "idle"]
    /\ garwRet = [c \in Callers |-> NoRow]
    /\ garwReturned = FALSE
    /\ garwInserts = [c \in Callers |-> 0]
    /\ nUpdates = 0
    /\ \E first \in ProductInputs, second \in ProductInputs :
          products = <<ProductRow(1, first), ProductRow(2, second)>>
    /\ nextProductId = 3
    /\ \E embedded \in SUBSET {1, 2} :
          productEmbeddings =
              [i \in 1..Cardinality(embedded) |->
                  LET id == IF 1 \in embedded /\ i = 1 THEN 1 ELSE 2
                  IN  [productId |-> id,
                       embedding |-> generateEmbedding(ProductText(products[id])),
                       textUsed |-> ProductText(products[id])]]

NextRanker ==
    \/ \E input \in SearchInputs({StrUsb, <<"z", "z">>}, {1, 20},
                                 {Rat(1, 10), Rat(1, 1)}, {FALSE}, {FALSE}) :
           SearchStart(input, FALSE)
    \/ SearchLocal
    \/ \E ok \in BOOLEAN : SearchLocalLog(ok)
    \/ \E ok \in BOOLEAN : SearchLocalExplain(ok)
    \/ SearchReturn

SpecRanker == InitRanker /\ [][NextRanker]_vars

\* semanticSearch has computed its result list and has not returned yet.
RankerHasResults == srPc \in {"localLog", "localExplain", "return"}

\* C12: in every result list of semanticSearch final scores do not increase
\* with position, positions are 1..n, and results of equal final score come
\* in ascending product id, whatever order the repository returned.
C12_RankedOrder ==
    RankerHasResults =>
        \A i, j \in DOMAIN srResults :
            /\ srResults[i].position = i
            /\ i < j =>
                  /\ ~RatLess(srResults[i].scores.final, srResults[j].scores.final)
                  /\ srResults[i].scores.final = srResults[j].scores.final =>
                         srResults[i].productId < srResults[j].productId

\* ------------------------------------------------------------------ C13
\* alpha*Semantic + beta*Rating + gamma*Price + delta*Stock + epsilon*Recency
\* over the sub-scores a result reports.
WeightedSum(scores, weights) ==
    RatSum(<<RatMul(Rat(weights.alpha, 1000), scores.semantic),
             RatMul(Rat(weights.beta, 1000), scores.rating),
             RatMul(Rat(weights.gamma, 1000), scores.price),
             RatMul(Rat(weights.delta, 1000), scores.stock),
             RatMul(Rat(weights.epsilon, 1000), scores.recency)>>)

\* C13: the final score of every result of semanticSearch is the weighted sum
\* of the sub-scores reported in that result under the active weights, also
\* for a query whose terms match the product text.
C13_FinalIsWeightedSum ==
    RankerHasResults =>
        \A i \in DOMAIN srResults :
            \E weights \in ActiveRows :
                srResults[i].scores.final = WeightedSum(srResults[i].scores, weights)

\* ------------------------------------------------------------------ C14
\* The query has a whitespace-separated token longer than 2 characters.
HasLongToken(query) == Len(QueryTerms(query)) > 0

\* The router answers a request whose ranker has returned.
C14_Step ==
    (srPc = "return" /\ srPc' = "idle") =>
        (searchResponse'.fallbackUsed = "keyword"
            <=> (Len(srResults) = 0 /\ HasLongToken(srInput.query)))

\* C14: the response carries the keyword-fallback flag exactly when the
\* ranker returned no result and the query has a token longer than 2
\* characters; a query of short tokens never gets a keyword-fallback response.
C14_FallbackOnlyForLongTokens == [][C14_Step]_vars

\* ------------------------------------------------------------------ C15
Availabilities == {"in_stock", "low_stock", "out_of_stock"}

\* The keyword fallback over catalogs of every availability, for requests
\* with and without filters.
InitKeyword ==
    /\ db = "handle"
    /\ now = 0
    /\ IdleUpload
    /\ IdleSessions
    /\ IdleRecs
    /\ IdleExtra
    /\ IdleSearch
    /\ embedCalls = <<>>
    /\ rankingWeights = <<DefaultWeightsRow(1)>>
    /\ garwPc = [c \in Callers |-> "idle"]
    /\ garwRet = [c \in Callers |-> NoRow]
    /\ garwReturned = FALSE
    /\ garwInserts = [c \in Callers |-> 0]
    /\ nUpdates = 0
    /\ \E first \in Availabilities, second \in Availabilities :
          products = <<ProductRow(1, [UsbInput EXCEPT !.availability = first]),
                       ProductRow(2, [UsbInput EXCEPT !.availability = second])>>
    /\ nextProductId = 3
    /\ productEmbeddings = <<>>

KeywordInputs ==
    [query : {<<"u", "s">>}, limit : {20}, minScore : {Rat(1, 10), Rat(1, 1)},
     category : {NoCategory, StrTech}, minPrice : {NoPrice, 6 * OnePound},
     maxPrice : {NoPrice}, inStockOnly : BOOLEAN, useAIService : {FALSE}]

NextKeyword ==
    \/ \E input \in KeywordInputs : SearchStart(input, FALSE)
    \/ SearchLocal
    \/ \E ok \in BOOLEAN : SearchLocalLog(ok)
    \/ \E ok \in BOOLEAN : SearchLocalExplain(ok)
    \/ SearchReturn

SpecKeyword == InitKeyword /\ [][NextKeyword]_vars

\* The stock sub-score the claim gives a keyword-fallback result.
C15_Stock(availability) ==
    CASE availability = "in_stock" -> Rat(1, 1)
      [] availability = "low_stock" -> Rat(1, 2)
      [] availability = "out_of_stock" -> Rat(0, 1)

\* The router answers with the keyword fallback.
C15_Step ==
    (srPc = "return" /\ srPc' = "idle" /\ searchResponse'.fallbackUsed = "keyword") =>
        \A i \in DOMAIN searchResponse'.results :
            LET r == searchResponse'.results[i]
                product == getProductById(r.productId)
            IN  /\ r.scores.final = Rat(1, 2)
                /\ product.rating # NullNum => r.scores.rating = Rat(product.rating, 500)
                /\ r.scores.price = Rat(1, 2)
                /\ r.scores.recency = Rat(1, 2)
                /\ r.scores.stock = C15_Stock(product.availability)
                /\ srInput.category # NoCategory =>
                       toLowerCase(product.category) = toLowerCase(srInput.category)
                /\ srInput.minPrice # NoPrice => PriceNumber(product) >= srInput.minPrice
                /\ srInput.maxPrice # NoPrice => PriceNumber(product) <= srInput.maxPrice
                /\ srInput.inStockOnly => product.availability # "out_of_stock"

\* C15: every keyword-fallback result has final 0.5, rating rating/5, price
\* 0.5, recency 0.5, stock 1 / 0.5 / 0 for in_stock / low_stock /
\* out_of_stock, and passes every filter of the request.
C15_KeywordScores == [][C15_Step]_vars

\* ------------------------------------------------------------------ C16
\* Requests that ask for the AI service, which is healthy or not and answers
\* or fails.
NextSearchAI ==
    \/ \E input \in SearchInputs({StrUsb}, {20}, {Rat(1, 10), Rat(1, 1)},
                                 {FALSE}, {TRUE}),
          healthy \in BOOLEAN :
           SearchStart(input, healthy)
    \/ SearchViaAI
    \/ \E ok \in BOOLEAN : SearchAILog(ok)
    \/ \E ok \in BOOLEAN : SearchAIExplain(ok)
    \/ SearchLocal
    \/ \E ok \in BOOLEAN : SearchLocalLog(ok)
    \/ \E ok \in BOOLEAN : SearchLocalExplain(ok)
    \/ SearchReturn

SpecSearchAI == InitSearch /\ [][NextSearchAI]_vars

\* A response is marked as served without the AI service by
\* aiServiceUsed: false.
Degraded(response) == response.aiServiceUsed = "false"

C16_Step ==
    LET ended == srPc # "idle" /\ srPc' = "idle"
    IN  /\ srPc = "ai" => srPc' \in {"aiLog", "local"}
        /\ (ended /\ searchResponse'.status = "error") =>
               srPc \in {"localLog", "localExplain"}
        /\ (ended /\ srPc \in {"aiLog", "aiExplain"}) =>
               /\ searchResponse'.status = "ok"
               /\ searchResponse'.results = srResults
               /\ ~Degraded(searchResponse')
        /\ (ended /\ srPc = "return") =>
               /\ searchResponse'.status = "ok"
               /\ Degraded(searchResponse')
               /\ IF Len(srResults) > 0
                  THEN /\ srResults \in semanticSearch(srInput)
                       /\ searchResponse'.results = srResults
                  ELSE searchResponse'.fallbackUsed = "keyword"

\* C16: a search whose AI service is unreachable or fails is still answered,
\* by the local ranker with the deterministic embedding, and that response is
\* marked degraded; a response served by the AI service is never marked.
C16_DegradedMarked == [][C16_Step]_vars

C16_Witness ==
    /\ srPc = "idle"
    /\ searchResponse.status = "ok"
    /\ Degraded(searchResponse)
    /\ searchResponse.fallbackUsed = "absent"
    /\ Len(searchResponse.results) > 0

\* ------------------------------------------------------------------ C17
\* Scenario S4: products p1 = 1, p2 = 2, cX = 3, cY = 4, all with embeddings
\* of norm 10: cos(p1, cX) = 0.9, cos(p2, cX) = 0.6, cos(p1, cY) = cos(p2, cY)
\* = 0.1.
S4Embeddings ==
    << <<9, 3, 3, 1, 0, 0, 0>>,
       <<6, 0, 0, 0, 8, 0, 0>>,
       <<10, 0, 0, 0, 0, 0, 0>>,
       <<-1, 2, 4, 1, 2, 7, 5>> >>

InitS4 ==
    /\ db = "handle"
    /\ now = 0
    /\ IdleWeights
    /\ IdleUpload
    /\ IdleSessions
    /\ IdleRecs
    /\ IdleExtra
    /\ IdleSearch
    /\ embedCalls = <<>>
    /\ products = [id \in 1..4 |-> ProductRow(id, UsbInput)]
    /\ nextProductId = 5
    /\ productEmbeddings = [id \in 1..4 |->
                               [productId |-> id, embedding |-> S4Embeddings[id],
                                textUsed |-> textToEmbed(UsbInput)]]

NextS4 ==
    \/ \E input \in InteractionInputs({"s1"}, {1}, {"view"})
                         \cup InteractionInputs({"s1"}, {2}, {"add_to_cart"}) :
           RiGetSession(1, input)
    \/ RiCreateSession(1)
    \/ RiUpdateSessionActivity(1)
    \/ RiRecordInteraction(1)
    \/ Tick
    \/ \E limit \in {4} : ForSession("s1", limit, <<>>)

SpecS4 == InitS4 /\ [][NextS4]_vars

\* The session's interactions, most recent first, are a view of p1 and an
\* add_to_cart of p2.
S4History ==
    \A recent \in getSessionInteractions("s1", InteractionLimit) :
        /\ Len(recent) = 2
        /\ recent[1].productId = 1 /\ recent[1].interactionType = "view"
        /\ recent[2].productId = 2 /\ recent[2].interactionType = "add_to_cart"

\* The response of S4 up to the reason of cX.
S4Ranking(result) ==
    /\ Len(result) = 2
    /\ result[1].productId = 3 /\ result[1].score = Rat(27, 10)
    /\ result[2].productId = 4 /\ result[2].score = Rat(4, 10)

C17_Step ==
    (S4History /\ recs' # recs /\ recs'.limit >= 2) =>
        /\ S4Ranking(recs'.result)
        /\ recs'.result[1].reason = "Similar to items in your cart"

\* C17: in scenario S4 getSessionRecommendations gives cX affinity 2.7 and cY
\* affinity 0.4, returns cX before cY, and the reason of cX is "Similar to
\* items in your cart".
C17_S4CartReason == [][C17_Step]_vars

C17_AmendedStep ==
    (S4History /\ recs' # recs /\ recs'.limit >= 2) =>
        /\ S4Ranking(recs'.result)
        /\ recs'.result[1].reason = "Very similar to items you viewed"
        /\ recs'.result[1].sourceProductId = 1

\* C17 amended: in scenario S4 cX has affinity 2.7, cY 0.4, cX comes first,
\* and the reason of cX is "Very similar to items you viewed": its best match
\* by raw cosine is the viewed p1 (0.9), not the p2 of the cart (0.6).
C17_S4ViewReason == [][C17_AmendedStep]_vars

C17_Witness ==
    /\ S4History
    /\ recs.limit = 4
    /\ S4Ranking(recs.result)
    /\ recs.result[1].reason = "Very similar to items you viewed"

\* ------------------------------------------------------------------ C18
\* Embeddings of norm 25: their cosines to <<25, 0>> are 1, 0.96, 0.8, 0.6
\* and 0.28.
ReasonVectors == {<<25, 0>>, <<24, 7>>, <<20, 15>>, <<15, 20>>, <<7, 24>>}

\* Products 1 and 2 are interacted with, product 3 is the candidate.
InitReasons ==
    /\ db = "handle"
    /\ now = 0
    /\ IdleWeights
    /\ IdleUpload
    /\ IdleSessions
    /\ IdleRecs
    /\ IdleExtra
    /\ IdleSearch
    /\ embedCalls = <<>>
    /\ products = [id \in 1..3 |-> ProductRow(id, UsbInput)]
    /\ nextProductId = 4
    /\ \E first \in ReasonVectors, second \in {<<20, 15>>, <<7, 24>>} :
          productEmbeddings =
              [id \in 1..3 |->
                  [productId |-> id,
                   embedding |-> <<first, second, <<25, 0>> >>[id],
                   textUsed |-> textToEmbed(UsbInput)]]

NextReasons ==
    \/ \E input \in InteractionInputs({"s1"}, {1, 2},
                                      {"view", "add_to_cart", "purchase"}) :
           RiGetSession(1, input)
    \/ RiCreateSession(1)
    \/ RiUpdateSessionActivity(1)
    \/ RiRecordInteraction(1)
    \/ ForSession("s1", 4, <<>>)

SpecReasons == InitReasons /\ [][NextReasons]_vars

\* The reason the claim gives for the recorded kind and the best raw cosine.
C18_Reason(kind, c) ==
    CASE kind = "purchase" -> "Based on your purchase"
      [] kind = "add_to_cart" -> "Similar to items in your cart"
      [] OTHER ->
           IF RatLess(Rat(4, 5), c) THEN "Very similar to items you viewed"
           ELSE IF RatLess(Rat(3, 5), c) THEN "Similar to your interests"
           ELSE IF RatLess(Rat(2, 5), c) THEN "Related to your browsing"
           ELSE "You might like this"

\* The stored embedding of a product.
EmbeddingOf(productId) ==
    (CHOOSE row \in getEmbeddingByProductId(productId) : TRUE).embedding

\* A similarity-based result agrees with the claim for the history recent.
C18_Result(r, recent) ==
    LET interacted == {recent[i].productId : i \in DOMAIN recent}
        cosineTo(p) == cosineSimilarity(EmbeddingOf(r.productId), EmbeddingOf(p))
    IN  /\ r.sourceProductId \in interacted
        /\ \A p \in interacted :
               ~RatLess(cosineTo(r.sourceProductId), cosineTo(p))
        /\ \E i \in DOMAIN recent :
               /\ recent[i].productId = r.sourceProductId
               /\ \A j \in DOMAIN recent :
                      recent[j].productId = r.sourceProductId =>
                          ~RatLess(InteractionScore(recent, i), InteractionScore(recent, j))
               /\ r.reason = C18_Reason(recent[i].interactionType,
                                        cosineTo(r.sourceProductId))

C18_Step ==
    recs' # recs =>
        \E recent \in getSessionInteractions("s1", InteractionLimit) :
            \A k \in DOMAIN recs'.result :
                recs'.result[k].sourceProductId # NoSource =>
                    C18_Result(recs'.result[k], recent)

\* C18: the reason of a similarity-based recommendation is "Based on your
\* purchase" / "Similar to items in your cart" when the kind recorded for its
\* best-match product is purchase / add_to_cart, else it is given by the best
\* raw cosine with thresholds 0.8, 0.6 and 0.4; the kind recorded for a
\* product is that of its highest-scored interaction.
C18_ReasonRules == [][C18_Step]_vars

\* One product was purchased and added to the cart; with the add_to_cart the
\* more recent it scores 8 against the purchase's 7.5, and the reason is the
\* cart's.
C18_Witness ==
    /\ Len(interactions) = 2
    /\ interactions[1].productId = interactions[2].productId
    /\ {interactions[1].interactionType, interactions[2].interactionType}
           = {"add_to_cart", "purchase"}
    /\ \E k \in DOMAIN recs.result :
          /\ recs.result[k].productId = 3
          /\ recs.result[k].reason = "Similar to items in your cart"

\* ------------------------------------------------------------------ C19
\* Three products: the first two featured with any rating, the third rated
\* 3.00 and featured or not; products 2 and 3 have embeddings, product 1 has
\* one or not.
ColdStartRatings == {NullNum, 300, 450}

InitColdStart ==
    /\ db = "handle"
    /\ now = 0
    /\ IdleWeights
    /\ IdleUpload
    /\ IdleSessions
    /\ IdleRecs
    /\ IdleExtra
    /\ IdleSearch
    /\ embedCalls = <<>>
    /\ \E first \in ColdStartRatings, second \in ColdStartRatings, featured \in BOOLEAN :
          products =
              <<ProductRow(1, [LampInput EXCEPT !.rating = first]),
                ProductRow(2, [LampInput EXCEPT !.rating = second]),
                ProductRow(3, [LampInput EXCEPT !.rating = 300,
                                                !.isFeatured = featured])>>
    /\ nextProductId = 4
    /\ \E embedded \in BOOLEAN :
          productEmbeddings =
              [i \in 1..(IF embedded THEN 3 ELSE 2) |->
                  [productId |-> 4 - i, embedding |-> <<4, 3>>,
                   textUsed |-> textToEmbed(LampInput)]]

NextColdStart ==
    \/ \E input \in InteractionInputs({"s1"}, {1}, {"view"}) : RiGetSession(1, input)
    \/ RiCreateSession(1)
    \/ RiUpdateSessionActivity(1)
    \/ RiRecordInteraction(1)
    \/ \E limit \in 1..2, excludeProductIds \in {<<>>, <<1>>, <<2, 3>>} :
           ForSession("s1", limit, excludeProductIds)

SpecColdStart == InitColdStart /\ [][NextColdStart]_vars

\* The session has no interaction, or no interacted product has an embedding.
ColdStartCase ==
    \A i \in DOMAIN interactions :
        interactions[i].sessionId = "s1" =>
            getEmbeddingByProductId(interactions[i].productId) = {}

C19_Step ==
    (ColdStartCase /\ recs' # recs) =>
        LET result == recs'.result
            kept == {i \in DOMAIN products :
                        /\ products[i].isFeatured
                        /\ products[i].id \notin Range(recs'.excludeProductIds)}
            n == IF recs'.limit < Cardinality(kept) THEN recs'.limit
                 ELSE Cardinality(kept)
            returned == {result[k].productId : k \in DOMAIN result}
            rated(id) == getProductById(id).rating # NullNum
            notBelow(a, b) ==
                (rated(a) /\ rated(b)) =>
                    getProductById(a).rating >= getProductById(b).rating
        IN  /\ Len(result) = n
            /\ Cardinality(returned) = n
            /\ returned \subseteq {products[i].id : i \in kept}
            /\ \A k \in DOMAIN result :
                   /\ result[k].score = Rat(1, 1)
                   /\ result[k].reason = "Popular product"
            /\ \A j, k \in DOMAIN result :
                   j < k => notBelow(result[j].productId, result[k].productId)
            /\ \A k \in DOMAIN result, i \in kept :
                   products[i].id \notin returned =>
                       notBelow(result[k].productId, products[i].id)

InitSimilar ==
    /\ db \in DbStates
    /\ now = 0
    /\ IdleWeights
    /\ IdleUpload
    /\ IdleSessions
    /\ IdleRecs
    /\ IdleExtra
    /\ IdleSearch
    /\ embedCalls = <<>>
    /\ \E category \in {StrTech, <<>>} :
          products =
              <<ProductRow(1, [UsbInput EXCEPT !.category = category]),
                ProductRow(2, [UsbInput EXCEPT !.isFeatured = TRUE]),
                ProductRow(3, LampInput)>>
    /\ nextProductId = 4
    /\ \E embedded \in SUBSET {1, 2, 3}, second \in {<<4, 3>>, <<0, 5>>},
          third \in {<<3, 4>>, <<5, 0>>} :
          LET row(id) == [productId |-> id,
                          embedding |-> << <<5, 0>>, second, third>>[id],
                          textUsed |-> textToEmbed(UsbInput)]
              ids == SelectSeq(<<1, 2, 3>>, LAMBDA id : id \in embedded)
          IN  productEmbeddings = [k \in DOMAIN ids |-> row(ids[k])]

NextSimilar == \E productId \in 1..4, limit \in 1..2 : Similar(productId, limit)

SpecSimilar == InitSimilar /\ [][NextSimilar]_vars

\* The parts of the claim that hold of every call: the target is not
\* returned, at most limit results, and with an embedding of the target
\* every result has cosine similarity > 0.3 to it, in non-increasing order.
C20_Common ==
    LET result == similar.result
    IN  /\ Len(result) <= similar.limit
        /\ \A k \in DOMAIN result : result[k].productId # similar.productId
        /\ getEmbeddingByProductId(similar.productId) # {} =>
               /\ \A k \in DOMAIN result :
                      /\ getEmbeddingByProductId(result[k].productId) # {}
                      /\ result[k].score =
                             cosineSimilarity(EmbeddingOf(similar.productId),
                                              EmbeddingOf(result[k].productId))
                      /\ RatLess(Rat(3, 10), result[k].score)
               /\ \A j, k \in DOMAIN result :
                      j < k => ~RatLess(result[j].score, result[k].score)

\* Every result is a product of the target's category.
SameCategoryResults ==
    \A k \in DOMAIN similar.result :
        getProductById(similar.result[k].productId).category
            = getProductById(similar.productId).category

\* C20: getSimilarProducts never returns the target and returns at most limit
\* results; with an embedding of the target every result has cosine
\* similarity > 0.3 to it, in non-increasing order; without one every result
\* is a product of the target's category other than the target.
C20_SimilarProducts ==
    similar # NoSimilar =>
        /\ C20_Common
        /\ (db = "handle" /\ HasProduct(similar.productId)
              /\ getEmbeddingByProductId(similar.productId) = {}) =>
               SameCategoryResults

\* C20 amended: as C20, but a target without an embedding gets the products
\* of its category only when it has a category; a target with neither gets
\* the cold start: featured products other than the target.
C20_SimilarOrColdStart ==
    similar # NoSimilar =>
        /\ C20_Common
        /\ (db = "handle" /\ getEmbeddingByProductId(similar.productId) = {}) =>
               IF HasProduct(similar.productId)
                  /\ getProductById(similar.productId).category # <<>>
               THEN SameCategoryResults
               ELSE \A k \in DOMAIN similar.result :
                        /\ getProductById(similar.result[k].productId).isFeatured
                        /\ similar.result[k].reason = "Popular product"

\* The target has neither an embedding nor a category and gets a featured
\* product.
C20_Witness ==
    /\ db = "handle"
    /\ HasProduct(similar.productId)
    /\ getEmbeddingByProductId(similar.productId) = {}
    /\ getProductById(similar.productId).category = <<>>
    /\ Len(similar.result) > 0
    /\ similar.result[1].reason = "Popular product"

\* ------------------------------------------------------------------ C21
InitViewed ==
    /\ db \in DbStates
    /\ now = 0
    /\ IdleWeights
    /\ IdleUpload
    /\ IdleSessions
    /\ IdleRecs
    /\ IdleExtra
    /\ IdleSearch
    /\ embedCalls = <<>>
    /\ productEmbeddings = <<>>
    /\ products = <<ProductRow(1, UsbInput), ProductRow(2, LampInput)>>
    /\ nextProductId = 3

\* A browser views and clicks products, time passes and it asks for its
\* recently viewed products.
NextViewed ==
    \/ \E input \in InteractionInputs({"s1"}, ProductIds, {"view", "click"}) :
           RiGetSession(1, input)
    \/ RiCreateSession(1)
    \/ RiUpdateSessionActivity(1)
    \/ RiRecordInteraction(1)
    \/ Tick
    \/ \E limit \in {1, 10} : RecentlyViewed("s1", limit)

SpecViewed == InitViewed /\ [][NextViewed]_vars

\* The times of the session's views of a product.
ViewTimes(sessionId, productId) ==
    {interactions[i].createdAt :
        i \in {j \in DOMAIN interactions :
                  /\ interactions[j].sessionId = sessionId
                  /\ interactions[j].interactionType = "view"
                  /\ interactions[j].productId = productId}}

C21_Step ==
    viewed' # viewed =>
        LET result == viewed'.result
            sid == viewed'.sessionId
            viewRows == {j \in DOMAIN interactions :
                            /\ interactions[j].sessionId = sid
                            /\ interactions[j].interactionType = "view"}
        IN  /\ \A j, k \in DOMAIN result : j # k => result[j] # result[k]
            /\ \A k \in DOMAIN result : ViewTimes(sid, result[k]) # {}
            /\ (db = "handle" /\ Cardinality(viewRows) <= viewed'.limit) =>
                   \A j \in viewRows :
                       \E k \in DOMAIN result : result[k] = interactions[j].productId
            /\ \A j, k \in DOMAIN result :
                   j < k => SetMax(ViewTimes(sid, result[j]))
                                >= SetMax(ViewTimes(sid, result[k]))

\* C21: getRecentlyViewedProducts returns the distinct products of the
\* session's view interactions, the most recently viewed first, and no product
\* the session touched only through other interactions.
C21_RecentlyViewedOrder == [][C21_Step]_vars

\* ------------------------------------------------------------------ C22
MaxTokens == 3

\* The words of the queries: one in two spellings, a short one, and one that
\* the product text does not hold.
MatchTokens == {StrUsb, <<"u", "s", "b">>, <<"o", "f">>, StrLamp}

MatchQueries ==
    {JoinSpaces(tokens) : tokens \in UNION {[1..n -> MatchTokens] : n \in 1..MaxTokens}}

MatchTexts == {ProductText(ProductRow(1, UsbInput)), toLowerCase(StrLamp)}

InitMatched ==
    /\ db = "handle"
    /\ now = 0
    /\ IdleWeights
    /\ IdleEmbed
    /\ IdleProducts
    /\ IdleUpload
    /\ IdleSessions
    /\ IdleRecs
    /\ IdleButMatched
    /\ IdleSearch
    /\ matched \in [query : MatchQueries, productText : MatchTexts,
                    result : {<<>>}, called : {FALSE}]

NextMatched == ExtractMatchedTerms

SpecMatched == InitMatched /\ [][NextMatched]_vars

\* The lowercased query tokens longer than 2 characters that the lowercased
\* product text holds.
MatchingTokens(query, productText) ==
    {t \in Range(QueryTerms(query)) : Includes(toLowerCase(productText), t)}

\* The place of a token's first occurrence in the query.
FirstPlace(query, t) ==
    SetMin({i \in DOMAIN QueryTerms(query) : QueryTerms(query)[i] = t})

\* C22: the matched-term list holds exactly the lowercased query tokens of
\* length > 2 that occur in the lowercased product text, in query order, and
\* no term more than once, also when the query repeats a token.
C22_MatchedTermsDeduplicated ==
    matched.called =>
        LET terms == matched.result
        IN  /\ Range(terms) = MatchingTokens(matched.query, matched.productText)
            /\ \A i, j \in DOMAIN terms :
                  i < j => FirstPlace(matched.query, terms[i])
                               < FirstPlace(matched.query, terms[j])

\* ------------------------------------------------------------------ C23
\* The prices of the candidate set of the query, an unknown price taken as 0.
CandidatePrices == {PriceNumber(products[i]) : i \in DOMAIN products}

\* 1 - (price - min)/(max - min) over the candidate set, 0.5 when min = max
\* and 0.5 for a product of unknown price.
MinMaxPriceScore(product) ==
    LET min == SetMin(CandidatePrices)
        max == SetMax(CandidatePrices)
    IN  IF product.price = NullNum \/ min = max THEN Rat(1, 2)
        ELSE RatSub(Rat(1, 1), Rat(product.price - min, max - min))

\* C23: the price sub-score of every result of semanticSearch is
\* 1 - (price - min)/(max - min) with min and max the lowest and the highest
\* price of the candidate set; it is 0.5 when min = max, as in a 1-element
\* candidate set, and 0.5 for a product of unknown price.
C23_PriceScoreMinMax ==
    RankerHasResults =>
        \A i \in DOMAIN srResults :
            srResults[i].scores.price =
                MinMaxPriceScore(getProductById(srResults[i].productId))

\* ------------------------------------------------------------------ C24
MaxResults == 3
MaxJudgments == 2
MaxRelevance == 3
MaxK == 4

\* Result lists: product ids in any order, repeated or not.
ResultLists ==
    UNION {[1..n -> [productId : 1..MaxResults]] : n \in 0..MaxResults}

JudgmentLists ==
    UNION {[1..n -> [productId : 1..MaxJudgments, relevanceScore : 0..MaxRelevance]] :
              n \in 0..MaxJudgments}

\* The tables and the other operations at rest.
IdleCore ==
    /\ db = "handle"
    /\ now = 0
    /\ IdleWeights
    /\ IdleEmbed
    /\ IdleProducts
    /\ IdleUpload
    /\ IdleSessions
    /\ IdleRecs
    /\ IdleSearch

InitMetrics ==
    /\ IdleCore
    /\ IdleButMetrics
    /\ metrics \in [results : ResultLists, judgments : JudgmentLists, k : {1, 2, MaxK},
                    result : {NoMetrics}, called : {FALSE}]

NextMetrics == CalculateAllMetrics

SpecMetrics == InitMetrics /\ [][NextMetrics]_vars

\* 0 <= x <= 1
InUnitInterval(x) == ~RatLess(x, Rat(0, 1)) /\ ~RatLess(Rat(1, 1), x)

\* C24: for every result list, lists that repeat a product id included, every
\* list of judgments of relevance 0..3 and every k >= 1, each of nDCG@k,
\* Recall@k, Precision@k, MRR and average precision that calculateAllMetrics
\* returns lies in [0, 1].
C24_MetricsInUnitInterval ==
    metrics.called =>
        /\ InUnitInterval(metrics.result.ndcg)
        /\ InUnitInterval(metrics.result.recall)
        /\ InUnitInterval(metrics.result.precision)
        /\ InUnitInterval(metrics.result.mrr)
        /\ InUnitInterval(metrics.result.averagePrecision)

\* ------------------------------------------------------------------ C25
\* The judged products of relevance >= 1.
RelevantJudged == RelevantItems(metrics.judgments, 1)

\* The places among the first k results that hold a relevant product.
RelevantPlaces ==
    {i \in DOMAIN metrics.results : i <= metrics.k /\ metrics.results[i].productId \in RelevantJudged}

JudgeTokens == {StrUsb, <<"u", "s", "b">>, <<"o", "f">>, StrLamp, StrTech}

JudgeQueries ==
    {JoinSpaces(tokens) : tokens \in UNION {[1..n -> JudgeTokens] : n \in 1..MaxTokens}}

\* The product lists: the two products in either order, one of them, none.
JudgeProducts ==
    LET all == {ProductRow(1, UsbInput), ProductRow(2, LampInput)}
    IN  {list \in UNION {[1..n -> all] : n \in 0..2} :
            \A i, j \in DOMAIN list : i # j => list[i] # list[j]}

InitJudged ==
    /\ IdleCore
    /\ IdleButJudged
    /\ judged \in [query : JudgeQueries, products : JudgeProducts, results : {<<>>}]

NextJudged == GenerateAutoRelevanceJudgments

SpecJudged == InitJudged /\ [][NextJudged]_vars

\* The places of the lowercased query tokens longer than 2 characters that a
\* string holds.
TokenPlaces(query, str) ==
    {i \in DOMAIN QueryTerms(query) : Includes(toLowerCase(str), QueryTerms(query)[i])}

\* The relevance the rule gives a product: m tokens found in the product text
\* out of n, and whether some token occurs in the title.
RuleRelevance(query, product) ==
    LET n == Len(QueryTerms(query))
        m == Cardinality(TokenPlaces(query, ProductText(product)))
        title == TokenPlaces(query, product.title) # {}
    IN  CASE n = 0 -> 0
          [] n > 0 /\ 5 * m >= 4 * n /\ title -> 3
          [] n > 0 /\ ~(5 * m >= 4 * n /\ title) /\ (2 * m >= n \/ title) -> 2
          [] n > 0 /\ ~(2 * m >= n \/ title) /\ m > 0 -> 1
          [] OTHER -> 0

\* C26: generateAutoRelevanceJudgments(q, P) returns one judgment per product
\* of P in P's order, of relevance 3 if m/|queryTerms| >= 0.8 and a token is
\* in the title, else 2 if m/|queryTerms| >= 0.5 or a token is in the title,
\* else 1 if m > 0, else 0 (0 for all when q has no token longer than 2
\* characters); two calls on the same (q, P) return equal judgments.
C26_AutoJudgments ==
    \A c \in DOMAIN judged.results :
        /\ Len(judged.results[c]) = Len(judged.products)
        /\ \A i \in DOMAIN judged.products :
              /\ judged.results[c][i].productId = judged.products[i].id
              /\ judged.results[c][i].relevanceScore =
                     RuleRelevance(judged.query, judged.products[i])
        /\ \A d \in DOMAIN judged.results : judged.results[c] = judged.results[d]

\* Two calls, as on "tech lamp lamp" and the products USB (category tech) and
\* Lamp: the first has one token of three and none in its title, the second
\* two of three and its title.
C26_Witness ==
    /\ Len(judged.results) = 2
    /\ Len(judged.products) = 2
    /\ judged.results[2][1].relevanceScore = 1
    /\ judged.results[2][2].relevanceScore = 2

\* ------------------------------------------------------------------ C27
\* Requests of the three kinds: with and without the AI service, with a query
\* the ranker scores ("USB") and one only the keyword search finds ("us").
NextSearchPaths ==
    \/ \E input \in SearchInputs({StrUsb, <<"u", "s">>}, {20},
                                 {Rat(1, 10), Rat(1, 1)}, {FALSE}, BOOLEAN),
          healthy \in BOOLEAN :
           SearchStart(input, healthy)
    \/ SearchViaAI
    \/ \E ok \in BOOLEAN : SearchAILog(ok)
    \/ \E ok \in BOOLEAN : SearchAIExplain(ok)
    \/ SearchLocal
    \/ \E ok \in BOOLEAN : SearchLocalLog(ok)
    \/ \E ok \in BOOLEAN : SearchLocalExplain(ok)
    \/ SearchReturn

SpecSearchPaths == InitSearch /\ [][NextSearchPaths]_vars

\* The search_logs rows of an id.
LogsOf(searchLogId) ==
    {i \in DOMAIN searchLogs : searchLogs[i].id = searchLogId}

\* C27: for every search.semantic response with searchLogId > 0, the result
\* count of that search_logs row and the number of explanation rows stored for
\* it both equal the number of results in the response, on the AI-service
\* path, the local ranker path and the keyword-fallback path.
C27_LogMatchesResponse ==
    (searchResponse.status = "ok" /\ searchResponse.searchLogId > 0) =>
        /\ \A i \in LogsOf(searchResponse.searchLogId) :
              searchLogs[i].resultsCount = Len(searchResponse.results)
        /\ LogsOf(searchResponse.searchLogId) # {}
        /\ Cardinality(ExplanationsOf(searchResponse.searchLogId)) =
               Len(searchResponse.results)

\* ------------------------------------------------------------------ C28
\* A completed job has all its rows processed (a job is completed with or
\* without embedding generation; both are covered).
CompletedJobsProcessed ==
    \A i \in DOMAIN catalogUploadJobs :
        catalogUploadJobs[i].status = "completed" =>
            catalogUploadJobs[i].processedRows = catalogUploadJobs[i].totalRows

\* C28: for every upload job, in every state during and after
\* admin.catalog.upload, embeddedRows <= processedRows <= totalRows, and a
\* completed job has processedRows = totalRows, also when the catalogue
\* already holds products with a title of the uploaded batch.
C28_JobCounters ==
    /\ \A i \in DOMAIN catalogUploadJobs :
          /\ catalogUploadJobs[i].embeddedRows <= catalogUploadJobs[i].processedRows
          /\ catalogUploadJobs[i].processedRows <= catalogUploadJobs[i].totalRows
    /\ CompletedJobsProcessed

\* ------------------------------------------------------------------ C29
\* A process with or without DATABASE_URL, before its first getDb.
InitGetDb ==
    /\ IdleCore
    /\ IdleButConn
    /\ conn \in {[NoConn EXCEPT !.url = url] : url \in BOOLEAN}

NextGetDb ==
    \/ \E c \in Callers, connects \in BOOLEAN : GetDbCall(c, connects)
    \/ \E c \in Callers, ok \in BOOLEAN : GetDbBackfill(c, ok)

SpecGetDb == InitGetDb /\ [][NextGetDb]_vars

\* A call of caller c returns in this step.
GetDbReturns(c) ==
    /\ conn'.ret[c] # "none"
    /\ \/ conn.pc[c] = "backfill" /\ conn'.pc[c] = "idle"
       \/ conn.pc[c] = "idle" /\ conn'.pc[c] = "idle" /\ conn'.calls = conn.calls + 1

C29_Step ==
    /\ \A c \in Callers :
          (GetDbReturns(c) /\ conn'.ret[c] = "handle") => conn'.backfilled
    /\ conn'.executed <= 1

\* C29: getDb returns no non-null handle to any caller before the
\* legacy-column backfill has completed successfully, also with concurrent
\* first callers and when the first caller's backfill fails, and the backfill
\* statement is executed successfully at most once per process.
C29_HandleOnlyAfterBackfill == [][C29_Step]_vars

\* ------------------------------------------------------------------ C30
MaxBatch == 3

\* The id lists: products 1 and 2 exist, product 3 does not; an id may
\* occur twice.
BatchIdLists == UNION {[1..n -> 1..3] : n \in 0..MaxBatch}

InitBatch ==
    /\ db = "handle"
    /\ now = 0
    /\ IdleWeights
    /\ IdleEmbed
    /\ IdleUpload
    /\ IdleSessions
    /\ IdleRecs
    /\ IdleSearch
    /\ IdleButBatch
    /\ products = <<ProductRow(1, UsbInput), ProductRow(2, LampInput)>>
    /\ nextProductId = 3
    /\ batch \in {[NoBatch EXCEPT !.productIds = ids, !.onProgress = given,
                                  !.pc = "start"] :
                     ids \in BatchIdLists, given \in BOOLEAN}

NextBatch ==
    \/ BatchStart
    \/ \E ok \in BOOLEAN : BatchEmbedOne(ok)
    \/ BatchReturn

SpecBatch == InitBatch /\ [][NextBatch]_vars

\* The loop awaits a call that returns and a timer: each of its steps is
\* taken once it can be.
SpecBatchFair == SpecBatch /\ WF_vars(NextBatch)

BatchDone == batch.pc = "done"

\* What a finished call has done.
BatchComplete ==
    LET n == Len(batch.productIds)
    IN  /\ Len(batch.attempts) = n
        /\ \A k \in 1..n :
              /\ batch.attempts[k].productId = batch.productIds[k]
              /\ (~HasProduct(batch.productIds[k]) \/ ~batch.attempts[k].ok) =>
                     ~batch.attempts[k].result
        /\ batch.result.success + batch.result.failed = n
        /\ batch.result.failed =
               Cardinality({k \in 1..n : ~batch.attempts[k].result})
        /\ batch.onProgress => batch.progress = [k \in 1..n |-> k]

====
